---------------------------- MODULE Spec2Model ----------------------------
(***************************************************************************)
(* uni-server: content resolution for manage entries.                      *)
(*                                                                         *)
(* The state is the disk (the layer tree of the SugarCube entry with its   *)
(* modification times, the layer cache artifact cache.bin, the instance    *)
(* record files, the tree of the plain entry), the wall clock, and the     *)
(* process: its phase, the registry built by load_data_dir, and the last   *)
(* request with its response.                                              *)
(*                                                                         *)
(* A path on disk is a sequence of component names.  A request path and an *)
(* overlay key are strings: sequences of symbols, where "/" and "." are    *)
(* the separator and the dot and every other symbol stands for a run of    *)
(* name characters.  The index, mod and instance directories of the        *)
(* SugarCube entry are sets of files with a stem and an extension.         *)
(***************************************************************************)
EXTENDS Integers, Sequences, FiniteSets, TLC

VARIABLES
    now,        \* the wall clock reading
    fsys,       \* layer root tree: path -> node, or NoNode
    cacheFile,  \* the artifact layer/cache.bin: NoFile, Corrupt or its encoded content
    records,    \* the instance directory: record files in walk order
    plainFs,    \* tree under the plain entry's root_path
    config,     \* config.toml: the flags of the SugarCube entry
    phase,      \* "down" | "serving" | "failed"
    build,      \* what the last create_layers did and returned
    loaded,     \* the registry (LoadedMapping: entries sc and plain), or NotLoaded
    req,        \* the last request, or NoReq
    resp,       \* its response (with the file system calls made for it), or NoResp
    pool,       \* the worker threads: the request each one is handling
    saves,      \* the save directory of instance x: file name -> save code
    stores      \* the index, mod and instance directories of the SugarCube entry

vars == <<now, fsys, cacheFile, records, plainFs, config, phase, build, loaded, req, resp,
          pool, saves, stores>>

-----------------------------------------------------------------------------
(* Bounds *)

MaxClock == 3
MaxRecords == 2
MaxPathLen == 5

-----------------------------------------------------------------------------
(* Generic helpers *)

NoNode == [kind |-> "none"]
NoFile == [kind |-> "absent"]
Corrupt == [kind |-> "corrupt"]
NotLoaded == [kind |-> "none"]
NoReq == [kind |-> "none"]
NoResp == [kind |-> "none"]
NoBuild == [kind |-> "none"]

\* tokio's worker threads, each one idle
MaxWorkers == 2
Workers == 1 .. MaxWorkers
Idle == [pc |-> "idle"]
IdlePool == [w \in Workers |-> Idle]
Malformed == [kind |-> "malformed"]

\* The content of a record file that fs::read_to_string fails on
Unreadable == [kind |-> "unreadable"]
NoName == "None"
UNIX_EPOCH == 0

SeqsUpTo(S, n) == UNION {[1..k -> S] : k \in 0..n}

Range(s) == {s[i] : i \in DOMAIN s}

SetMax(S) == CHOOSE m \in S : \A x \in S : x <= m

EmptyMap == << >>

\* HashMap::insert
MapInsert(m, k, v) == [x \in (DOMAIN m) \cup {k} |-> IF x = k THEN v ELSE m[x]]

\* Path::starts_with / strip_prefix
IsPrefix(p, q) == Len(p) <= Len(q) /\ SubSeq(q, 1, Len(p)) = p

Parent(p) == SubSeq(p, 1, Len(p) - 1)

-----------------------------------------------------------------------------
(* The layer tree on disk.  The layer root is the path << >>. *)

LayerIds == {"base", "theme"}

Bytes == {"A", "B"}

\* Each layer may hold index.css, a/b.png and, in a directory of its own that
\* happens to be named cache.bin, cache.bin/b.png
DirPaths ==
    {<< >>} \cup {<<l>> : l \in LayerIds} \cup {<<l, "a">> : l \in LayerIds}
        \cup {<<l, "cache.bin">> : l \in LayerIds}

FilePaths ==
    {<<l, "index.css">> : l \in LayerIds} \cup {<<l, "a", "b.png">> : l \in LayerIds}
        \cup {<<l, "cache.bin", "b.png">> : l \in LayerIds}

Paths == DirPaths \cup FilePaths

\* The data of a file is what fs::read returns for it: its bytes, or ReadError
\* when the process is denied the read
ReadError == "EACCES"

DirNode(t) == [kind |-> "dir", mtime |-> t, data |-> "-"]
FileNode(t, d) == [kind |-> "file", mtime |-> t, data |-> d]

Exists(fs, p) == p \in DOMAIN fs /\ fs[p] # NoNode
IsDir(fs, p) == Exists(fs, p) /\ fs[p].kind = "dir"
IsFile(fs, p) == Exists(fs, p) /\ fs[p].kind = "file"

\* The file tree is well formed: every node's parent is a directory.
TreeOK(fs) == \A p \in DOMAIN fs : (Exists(fs, p) /\ p # << >>) => IsDir(fs, Parent(p))


Last(p) == p[Len(p)]

\* A directory the process is denied to list has ReadError for data
Listable(fs, p) == fs[p].data # ReadError

\* The entries WalkDir(dir).into_iter().filter_map(Result::ok) yields: dir
\* itself and everything beneath it that is reached through directories that
\* can be listed; the error of a directory that cannot is filtered out
WalkDir(fs, dir) ==
    {p \in DOMAIN fs :
        /\ Exists(fs, p)
        /\ IsPrefix(dir, p)
        /\ \A k \in Len(dir)..(Len(p) - 1) : Listable(fs, SubSeq(p, 1, k))}

\* fs::read_dir: the immediate children of dir
ReadDir(fs, dir) == {p \in WalkDir(fs, dir) : Len(p) = Len(dir) + 1}

-----------------------------------------------------------------------------
(* util/mfs.rs: MapFileSystem, a map from slash-joined key to file reference *)

RECURSIVE JoinSlash(_)
JoinSlash(comps) ==
    IF Len(comps) = 0 THEN << >>
    ELSE IF Len(comps) = 1 THEN <<comps[1]>>
    ELSE <<comps[1], "/">> \o JoinSlash(Tail(comps))

\* strip_prefix(source_path)
StripPrefix(p, source) == SubSeq(p, Len(source) + 1, Len(p))

new_dir(fs, source) ==
    IF ~Exists(fs, source) \/ ~IsDir(fs, source) THEN EmptyMap
    ELSE LET files == {p \in WalkDir(fs, source) : ~IsDir(fs, p)}
             keys == {JoinSlash(StripPrefix(p, source)) : p \in files}
         IN [k \in keys |->
                CHOOSE p \in files : JoinSlash(StripPrefix(p, source)) = k]

\* (mutant) a missing key is answered with some entry of the map
mfs_get_any(mfs, path) ==
    IF path \in DOMAIN mfs THEN <<mfs[path]>>
    ELSE IF DOMAIN mfs # {} THEN <<mfs[CHOOSE k \in DOMAIN mfs : TRUE]>>
    ELSE << >>

\* MapFileSystem::get
mfs_get(mfs, path) == IF path \in DOMAIN mfs THEN <<mfs[path]>> ELSE << >>

-----------------------------------------------------------------------------
(* element/sc.rs: create_layers and the layer cache *)

LayerRoot == << >>
CacheName == "cache.bin"

get_latest_modified_time(fs, dir) ==
    LET start == IF Exists(fs, dir) THEN fs[dir].mtime ELSE UNIX_EPOCH
        seen == {fs[p].mtime :
                   p \in {q \in WalkDir(fs, dir) : q = dir \/ Last(q) # CacheName}}
    IN SetMax(seen \cup {start})

\* bincode::serde::encode_to_vec of LayerCache: the timestamp, then the layer
\* names and their (key, file) entries
encode_cache(last_modified, layer_map) ==
    [kind |-> "bin",
     secs |-> last_modified,
     names |-> DOMAIN layer_map,
     entries |-> UNION {{<<l, k, layer_map[l][k]>> : k \in DOMAIN layer_map[l]} :
                          l \in DOMAIN layer_map}]

\* bincode::serde::decode_from_slice::<LayerCache>: << >> on failure
decode_cache(file) ==
    IF file.kind # "bin" THEN << >>
    ELSE <<[last_modified |-> file.secs,
            layer_map |->
                [l \in file.names |->
                    LET es == {e \in file.entries : e[1] = l}
                    IN [k \in {e[2] : e \in es} |->
                          (CHOOSE e \in es : e[2] = k)[3]]]]>>

\* The rebuild from disk: one MapFileSystem for each immediate subdirectory
scan_layers(fs, layer_dir) ==
    LET layer_roots == {p \in ReadDir(fs, layer_dir) : IsDir(fs, p)}
    IN [name \in {Last(p) : p \in layer_roots} |-> new_dir(fs, layer_dir \o <<name>>)]

\* (mutant) a snapshot as old as the tree is rebuilt
cache_fresh_strict(current_modified, cache) == current_modified < cache.last_modified

\* if current_modified <= cache.last_modified
cache_fresh(current_modified, cache) == current_modified <= cache.last_modified

\* What create_layers returns and does to the disk, started at clock reading t:
\*   map     the LayerMap returned
\*   fs, cache, clock   the disk and the clock afterwards
\*   path    "bootstrap" | "cached" | "rebuilt"
\*   wrote   whether cache.bin was written
create_layers(fs, cache, t) ==
    IF ~Exists(fs, LayerRoot)
    THEN [map |-> EmptyMap,
          fs |-> [fs EXCEPT ![LayerRoot] = DirNode(t + 1)],
          cache |-> cache, clock |-> t + 1,
          path |-> "bootstrap", wrote |-> FALSE, current_modified |-> UNIX_EPOCH]
    ELSE
    LET current_modified == get_latest_modified_time(fs, LayerRoot)
        dec == decode_cache(cache)
    IN  IF cache # NoFile /\ dec # << >> /\ cache_fresh(current_modified, dec[1])
        THEN [map |-> dec[1].layer_map, fs |-> fs, cache |-> cache, clock |-> t,
              path |-> "cached", wrote |-> FALSE,
              current_modified |-> current_modified]
        ELSE LET map == scan_layers(fs, LayerRoot)
             IN IF DOMAIN map = {}
                THEN [map |-> map, fs |-> fs, cache |-> cache, clock |-> t,
                      path |-> "rebuilt", wrote |-> FALSE,
                      current_modified |-> current_modified]
                ELSE [map |-> map,
                      \* fs::write creates cache.bin when it is missing, which
                      \* modifies the layer directory
                      fs |-> IF cache = NoFile
                             THEN [fs EXCEPT ![LayerRoot].mtime = t + 1]
                             ELSE fs,
                      cache |-> encode_cache(current_modified, map),
                      clock |-> IF cache = NoFile THEN t + 1 ELSE t,
                      path |-> "rebuilt", wrote |-> TRUE,
                      current_modified |-> current_modified]

-----------------------------------------------------------------------------
(* util/path_ext.rs and the index and mod directories *)

\* str::to_lowercase / eq_ignore_ascii_case on the extensions that occur
Lower(ext) ==
    CASE ext = "YAML" -> "yaml"
      [] ext = "ZIP" -> "zip"
      [] ext = "Zip" -> "zip"
      [] ext = "HTML" -> "html"
      [] OTHER -> ext

extension_eq(file, ext) == Lower(file.ext) = Lower(ext)

extension_eqs(file, exts) == \E ext \in exts : extension_eq(file, ext)

\* A directory of the SugarCube entry: whether it exists, its immediate
\* subdirectories and the regular files beneath it.  A file has the
\* directories between the root and itself (dir), a stem and an extension.
Dir(dirs, files) == [exists |-> TRUE, dirs |-> dirs, files |-> files]
NoDir == [exists |-> FALSE, dirs |-> {}, files |-> {}]

\* (mutant) a directory that does not exist is left missing
initialized_not(dir) == dir

\* fs::create_dir of a directory that does not exist
initialized(dir) == IF dir.exists THEN dir ELSE Dir({}, {})

\* The files of the seeded index directory and of the seeded mod directory
IndexFiles == {[stem |-> "main", ext |-> "html"], [stem |-> "notes", ext |-> "txt"]}

ModFiles == {[dir |-> <<"m1">>, stem |-> "v1", ext |-> "zip"],
             [dir |-> <<"m2">>, stem |-> "v2", ext |-> "zip"]}

IndexPath(f) == <<"index", f.stem, f.ext>>
ModPath(f) == <<"mod">> \o f.dir \o <<f.stem, f.ext>>

\* DirEntry::file_name of a file
entry_file_name(f) == f.stem \o "." \o f.ext

create_indexes(index_dir) ==
    IF ~index_dir.exists THEN EmptyMap
    ELSE LET found == {f \in index_dir.files : extension_eq(f, "html")}
         IN [name \in {f.stem : f \in found} |->
               IndexPath(CHOOSE f \in found : f.stem = name)]

\* The name create_mods gives an archive: filename.strip_suffix(".zip"), or
\* the whole file name when the suffix is not there
mod_name(f) == IF f.ext = "zip" THEN f.stem ELSE entry_file_name(f)

create_mods(mod_dir) ==
    IF ~mod_dir.exists THEN EmptyMap
    ELSE [mod_id \in mod_dir.dirs |->
            LET mod_files == {f \in mod_dir.files :
                                /\ f.dir # << >>
                                /\ f.dir[1] = mod_id
                                /\ extension_eq(f, "zip")}
            IN [name \in {mod_name(f) : f \in mod_files} |->
                  ModPath(CHOOSE f \in mod_files : mod_name(f) = name)]]

\* The index, mod and instance directories a previous installation left
SeededStores ==
    [index_dir |-> Dir({}, IndexFiles),
     mod_dir |-> Dir({"m1", "m2"}, ModFiles),
     instance_dir |-> TRUE]

\* config.toml: the manage entries, and ManageType::SugarCube of the entry sc
ManageIds == {"sc", "plain"}

ManageConfigs ==
    [use_mods : BOOLEAN, use_save_sync : BOOLEAN,
     manage : {{}, {"plain"}, {"sc"}, ManageIds}]

SeededConfig == [use_mods |-> TRUE, use_save_sync |-> TRUE, manage |-> ManageIds]

-----------------------------------------------------------------------------
(* element/sc.rs: create_instances *)

\* The ids a record can name; "ghost", "nope", "mX" and "vX" name nothing on disk
InstanceIds == {"x", "y"}
IndexRefs == {"main", "nope"}
LayerRefs == LayerIds \cup {"ghost"}
ModRefs == {<<"m1", "v1">>, <<"m1", "vX">>, <<"mX", "v1">>}

\* The layer lists and mod lists of the records: both orders of two layers
\* that define the same key, unknown ids first, between and alone; unknown
\* pairs before and after a known one
LayerLists ==
    {<<"base", "theme">>, <<"theme", "base">>, <<"ghost", "base">>,
     <<"base", "ghost", "theme">>, <<"ghost">>}

ModLists ==
    {<< >>, <<<<"mX", "v1">>, <<"m1", "v1">>>>, <<<<"m1", "v1">>, <<"m1", "vX">>>>}

Configs ==
    [kind : {"config"}, id : InstanceIds, name : {NoName}, index : IndexRefs,
     layers : LayerLists, mods : ModLists]

\* A record that gives its instance a display name
NamedConfig ==
    [kind |-> "config", id |-> "x", name |-> "Named", index |-> "main",
     layers |-> <<"theme", "base">>, mods |-> << >>]

\* A record file: its file stem and extension, and what its content parses to
RecordFiles ==
    [stem : {"inst"}, ext : {"yaml"}, body : Configs \cup {NamedConfig, Malformed}]

RecordLists == SeqsUpTo(RecordFiles, MaxRecords)

\* (mutant) the first layer to define a key keeps it
InsertAll_first_wins(acc, mfs) ==
    [k \in (DOMAIN acc) \cup (DOMAIN mfs) |-> IF k \in DOMAIN acc THEN acc[k] ELSE mfs[k]]

\* for (k, v) in mfs.iter() { merged_layer_map.insert(k, v) }
InsertAll(acc, mfs) ==
    [k \in (DOMAIN acc) \cup (DOMAIN mfs) |-> IF k \in DOMAIN mfs THEN mfs[k] ELSE acc[k]]

\* (mutant) an unknown layer id ends the fold
RECURSIVE merge_layers_stop_at_unknown(_, _, _)
merge_layers_stop_at_unknown(layers, layer_map, acc) ==
    IF layers = << >> THEN acc
    ELSE LET layer_id == Head(layers)
         IN IF layer_id \in DOMAIN layer_map
            THEN merge_layers_stop_at_unknown(Tail(layers), layer_map,
                     [k \in (DOMAIN acc) \cup (DOMAIN layer_map[layer_id]) |->
                        IF k \in DOMAIN layer_map[layer_id]
                        THEN layer_map[layer_id][k] ELSE acc[k]])
            ELSE acc

\* (mutant) the overlay is built from every layer of the store
merge_layers_whole_store(layers, layer_map, acc) ==
    [k \in UNION {DOMAIN layer_map[l] : l \in DOMAIN layer_map} |->
        layer_map[CHOOSE l \in DOMAIN layer_map : k \in DOMAIN layer_map[l]][k]]

RECURSIVE merge_layers(_, _, _)
merge_layers(layers, layer_map, acc) ==
    IF layers = << >> THEN acc
    ELSE LET layer_id == Head(layers)
         IN merge_layers(Tail(layers), layer_map,
                         IF layer_id \in DOMAIN layer_map
                         THEN InsertAll(acc, layer_map[layer_id])
                         ELSE acc)

\* (mutant) an unresolved pair discards the pairs resolved before it
RECURSIVE resolve_mods_drop_all(_, _, _)
resolve_mods_drop_all(mods, mod_map, acc) ==
    IF mods = << >> THEN acc
    ELSE LET mod_id == Head(mods)[1]
             mod_sub_id == Head(mods)[2]
         IN resolve_mods_drop_all(Tail(mods), mod_map,
                IF mod_id \in DOMAIN mod_map /\ mod_sub_id \in DOMAIN mod_map[mod_id]
                THEN MapInsert(acc, <<mod_id, mod_sub_id>>, mod_map[mod_id][mod_sub_id])
                ELSE EmptyMap)

RECURSIVE resolve_mods(_, _, _)
resolve_mods(mods, mod_map, acc) ==
    IF mods = << >> THEN acc
    ELSE LET mod_id == Head(mods)[1]
             mod_sub_id == Head(mods)[2]
         IN resolve_mods(Tail(mods), mod_map,
                         IF mod_id \in DOMAIN mod_map
                         THEN IF mod_sub_id \in DOMAIN mod_map[mod_id]
                              THEN MapInsert(acc, <<mod_id, mod_sub_id>>,
                                             mod_map[mod_id][mod_sub_id])
                              ELSE acc
                         ELSE acc)

\* (mutant) the walker without the filter on the example file's name
Walker_all(files) ==
    SelectSeq(files, LAMBDA f : extension_eqs(f, {"json", "toml", "yaml", "yml"}))

\* The walker: regular files, not the reserved example, with a supported extension
Walker(files) ==
    SelectSeq(files, LAMBDA f :
        /\ ~(f.stem = "_example" /\ f.ext = "yaml")
        /\ extension_eqs(f, {"json", "toml", "yaml", "yml"}))

\* (mutant) a record with an unknown index ends the loop
RECURSIVE instances_loop_break(_, _, _, _, _)
instances_loop_break(files, index_map, layer_map, mod_map, map) ==
    IF files = << >> THEN [ok |-> TRUE, map |-> map]
    ELSE LET instance_config == Head(files).body
         IN IF instance_config = Malformed
            THEN [ok |-> FALSE, map |-> EmptyMap]
            ELSE IF instance_config.index \notin DOMAIN index_map
            THEN [ok |-> TRUE, map |-> map]
            ELSE instances_loop_break(Tail(files), index_map, layer_map, mod_map,
                    MapInsert(map, instance_config.id,
                        [id |-> instance_config.id,
                         name |-> instance_config.name,
                         index_path |-> index_map[instance_config.index],
                         layer_merged |->
                             merge_layers(instance_config.layers, layer_map, EmptyMap),
                         mods_ref |->
                             resolve_mods(instance_config.mods, mod_map, EmptyMap)]))

\* (mutant) an id that is in the map already keeps its first instance
RECURSIVE instances_loop_keep_first(_, _, _, _, _)
instances_loop_keep_first(files, index_map, layer_map, mod_map, map) ==
    IF files = << >> THEN [ok |-> TRUE, map |-> map]
    ELSE LET instance_config == Head(files).body
             rest == Tail(files)
         IN IF instance_config = Malformed
            THEN [ok |-> FALSE, map |-> EmptyMap]
            ELSE IF instance_config.index \notin DOMAIN index_map
            THEN instances_loop_keep_first(rest, index_map, layer_map, mod_map, map)
            ELSE LET instance ==
                       [id |-> instance_config.id,
                        name |-> instance_config.name,
                        index_path |-> index_map[instance_config.index],
                        layer_merged |->
                            merge_layers(instance_config.layers, layer_map, EmptyMap),
                        mods_ref |->
                            resolve_mods(instance_config.mods, mod_map, EmptyMap)]
                 IN instances_loop_keep_first(rest, index_map, layer_map, mod_map,
                        IF instance_config.id \in DOMAIN map THEN map
                        ELSE MapInsert(map, instance_config.id, instance))

\* (mutant) a record that fails to parse is skipped like an unreadable one
RECURSIVE instances_loop_skip_malformed(_, _, _, _, _)
instances_loop_skip_malformed(files, index_map, layer_map, mod_map, map) ==
    IF files = << >> THEN [ok |-> TRUE, map |-> map]
    ELSE LET instance_config == Head(files).body
             rest == Tail(files)
         IN IF instance_config \in {Unreadable, Malformed}
            THEN instances_loop_skip_malformed(rest, index_map, layer_map, mod_map, map)
            ELSE IF instance_config.index \notin DOMAIN index_map
            THEN instances_loop_skip_malformed(rest, index_map, layer_map, mod_map, map)
            ELSE LET instance ==
                       [id |-> instance_config.id,
                        name |-> instance_config.name,
                        index_path |-> index_map[instance_config.index],
                        layer_merged |->
                            merge_layers(instance_config.layers, layer_map, EmptyMap),
                        mods_ref |->
                            resolve_mods(instance_config.mods, mod_map, EmptyMap)]
                 IN instances_loop_skip_malformed(rest, index_map, layer_map, mod_map,
                        MapInsert(map, instance_config.id, instance))

\* The loop over the walker; [ok, map]: ok is FALSE when a parse error
\* propagated with `?`
RECURSIVE instances_loop(_, _, _, _, _)
instances_loop(files, index_map, layer_map, mod_map, map) ==
    IF files = << >> THEN [ok |-> TRUE, map |-> map]
    ELSE LET instance_config == Head(files).body
             rest == Tail(files)
         IN IF instance_config = Unreadable
            THEN instances_loop(rest, index_map, layer_map, mod_map, map)
            ELSE IF instance_config = Malformed
            THEN [ok |-> FALSE, map |-> EmptyMap]
            ELSE IF instance_config.index \notin DOMAIN index_map
            THEN instances_loop(rest, index_map, layer_map, mod_map, map)
            ELSE LET instance ==
                       [id |-> instance_config.id,
                        name |-> instance_config.name,
                        index_path |-> index_map[instance_config.index],
                        layer_merged |->
                            merge_layers(instance_config.layers, layer_map, EmptyMap),
                        mods_ref |->
                            resolve_mods(instance_config.mods, mod_map, EmptyMap)]
                 IN instances_loop(rest, index_map, layer_map, mod_map,
                                   MapInsert(map, instance_config.id, instance))

\* SugarCubeInstanceConfig of the example file, and the file
example ==
    [kind |-> "config", id |-> "example", name |-> "Example Instance",
     index |-> "index",
     layers |-> <<"layer1", "layer2">>,
     mods |-> <<<<"mod1", "1.0">>, <<"mod2", "0.3.9-test">>>>]

example_path == [stem |-> "_example", ext |-> "yaml", body |-> example]

\* instance_dir is [exists, files]; the result has the directory's files
\* after the call
create_instances(instance_dir, index_map, layer_map, mod_map) ==
    IF ~instance_dir.exists
    THEN [ok |-> TRUE, map |-> EmptyMap, files |-> <<example_path>>]
    ELSE LET R == instances_loop(Walker(instance_dir.files), index_map, layer_map,
                                 mod_map, EmptyMap)
         IN [ok |-> R.ok, map |-> R.map, files |-> instance_dir.files]

-----------------------------------------------------------------------------
(* The disk at first sight *)

\* base holds index.css, a/b.png and cache.bin/b.png, theme holds a/b.png
\* only: every node written at clock reading 1
SeededTree ==
    [p \in Paths |->
        CASE p \in {<<"theme", "index.css">>, <<"theme", "cache.bin">>,
                    <<"theme", "cache.bin", "b.png">>} -> NoNode
          [] p \in DirPaths -> DirNode(1)
          [] OTHER -> FileNode(1, IF p[1] = "base" THEN "A" ELSE "B")]

\* The artifact a previous run left for the seeded tree
SeededCache == encode_cache(1, scan_layers(SeededTree, LayerRoot))

\* The seeded tree with index.css in theme as well
ThemedTree == [SeededTree EXCEPT ![<<"theme", "index.css">>] = FileNode(1, "B")]

ThemedCache == encode_cache(1, scan_layers(ThemedTree, LayerRoot))

\* The plain entry's tree.  A component of a plain path is itself a string,
\* since a request may name components such as "a." or "...".
PlainRoot == << >>
NameA == <<"a">>
NameB == <<"b">>
PlainPaths == {PlainRoot, <<NameA>>, <<NameA, NameB>>, <<NameB>>}

MAX_FILE_SIZE == 64 * 1024 * 1024

PlainDir == [kind |-> "dir"]
PlainFile(d, len, readable) ==
    [kind |-> "file", data |-> d, len |-> len, readable |-> readable]

\* a is a directory; a/b and b vary
PlainLayouts ==
    {[p \in PlainPaths |->
        IF p \in {PlainRoot, <<NameA>>} THEN PlainDir
        ELSE IF p = <<NameA, NameB>> THEN ab ELSE b] :
     ab \in {NoNode, PlainFile("A", 1, TRUE), PlainFile("A", 1, FALSE),
             PlainFile("B", MAX_FILE_SIZE + 1, TRUE)},
     b \in {NoNode, PlainFile("B", 1, TRUE)}}

\* ManageType::Plain: the entry file of the plain entry
enter_path == <<NameB>>

SeededPlain ==
    [p \in PlainPaths |->
        IF p \in {PlainRoot, <<NameA>>} THEN PlainDir
        ELSE IF p = <<NameA, NameB>> THEN PlainFile("A", 1, TRUE)
        ELSE PlainFile("B", 1, TRUE)]

-----------------------------------------------------------------------------
(* main.rs, element/mod.rs: startup (load_data_dir) and process exit *)

\* What a startup at clock reading t makes of the disk it finds
\* (mutant) an entry whose construction fails is left out of the registry
load_data_dir_lenient(fs, cache, recs, st, conf, t) ==
    LET indexes == create_indexes(st.index_dir)
        L == create_layers(fs, cache, t)
        mods == IF conf.use_mods THEN create_mods(st.mod_dir) ELSE EmptyMap
        I == create_instances([exists |-> st.instance_dir, files |-> recs],
                              indexes, L.map, mods)
        after == [index_dir |-> initialized(st.index_dir),
                  mod_dir |-> IF conf.use_mods THEN initialized(st.mod_dir)
                              ELSE st.mod_dir,
                  instance_dir |-> TRUE]
        entry(id) ==
            IF id = "kind" THEN "mapping"
            ELSE IF id = "sc"
            THEN [instances |-> I.map, mods |-> mods,
                  use_mods |-> conf.use_mods,
                  use_save_sync_mod |-> conf.use_save_sync]
            ELSE [root_path |-> PlainRoot, enter_path |-> PlainRoot \o enter_path]
    IN IF conf.manage = {}
       THEN [fs |-> fs, cache |-> cache, clock |-> t, build |-> NoBuild,
             stores |-> st, records |-> recs,
             phase |-> "failed", mapping |-> NotLoaded]
       ELSE IF "sc" \notin conf.manage
       THEN [fs |-> fs, cache |-> cache, clock |-> t, build |-> NoBuild,
             stores |-> st, records |-> recs,
             phase |-> "serving",
             mapping |-> [id \in conf.manage \cup {"kind"} |-> entry(id)]]
       ELSE [fs |-> L.fs, cache |-> L.cache, clock |-> L.clock,
             stores |-> after, records |-> I.files,
             build |-> [kind |-> "built", path |-> L.path, map |-> L.map,
                        wrote |-> L.wrote,
                        current_modified |-> L.current_modified,
                        before |-> cache],
             phase |-> "serving",
             mapping |-> [id \in (IF I.ok THEN conf.manage ELSE conf.manage \ {"sc"})
                                     \cup {"kind"} |-> entry(id)]]

\* element/mod.rs: load_data_dir, then main: the registry is served, or the
\* process ends with the error
load_data_dir(fs, cache, recs, st, conf, t) ==
    LET indexes == create_indexes(st.index_dir)
        L == create_layers(fs, cache, t)
        mods == IF conf.use_mods THEN create_mods(st.mod_dir) ELSE EmptyMap
        I == create_instances([exists |-> st.instance_dir, files |-> recs],
                              indexes, L.map, mods)
        after == [index_dir |-> initialized(st.index_dir),
                  mod_dir |-> IF conf.use_mods THEN initialized(st.mod_dir)
                              ELSE st.mod_dir,
                  instance_dir |-> TRUE]
        entry(id) ==
            IF id = "kind" THEN "mapping"
            ELSE IF id = "sc"
            THEN [instances |-> I.map, mods |-> mods,
                  use_mods |-> conf.use_mods,
                  use_save_sync_mod |-> conf.use_save_sync]
            ELSE [root_path |-> PlainRoot, enter_path |-> PlainRoot \o enter_path]
    IN IF conf.manage = {}
       THEN [fs |-> fs, cache |-> cache, clock |-> t, build |-> NoBuild,
             stores |-> st, records |-> recs,
             phase |-> "failed", mapping |-> NotLoaded]
       ELSE IF "sc" \notin conf.manage
       THEN [fs |-> fs, cache |-> cache, clock |-> t, build |-> NoBuild,
             stores |-> st, records |-> recs,
             phase |-> "serving",
             mapping |-> [id \in conf.manage \cup {"kind"} |-> entry(id)]]
       ELSE [fs |-> L.fs, cache |-> L.cache, clock |-> L.clock,
             stores |-> after, records |-> I.files,
             build |-> [kind |-> "built", path |-> L.path, map |-> L.map,
                        wrote |-> L.wrote,
                        current_modified |-> L.current_modified,
                        before |-> cache],
             phase |-> IF I.ok THEN "serving" ELSE "failed",
             mapping |-> IF I.ok
                         THEN [id \in conf.manage \cup {"kind"} |-> entry(id)]
                         ELSE NotLoaded]

Startup ==
    /\ phase = "down"
    /\ \E S \in {load_data_dir(fsys, cacheFile, records, stores, config, now)} :
          /\ S.clock <= MaxClock
          /\ fsys' = S.fs
          /\ stores' = S.stores
          /\ records' = S.records
          /\ cacheFile' = S.cache
          /\ now' = S.clock
          /\ build' = S.build
          /\ phase' = S.phase
          /\ loaded' = S.mapping
    /\ UNCHANGED <<plainFs, config, req, resp, pool, saves>>

Shutdown ==
    /\ phase \in {"serving", "failed"}
    /\ phase' = "down"
    /\ build' = NoBuild
    /\ loaded' = NotLoaded
    /\ req' = NoReq
    /\ resp' = NoResp
    /\ pool' = IdlePool
    /\ UNCHANGED <<now, fsys, cacheFile, records, plainFs, config, stores, saves>>

-----------------------------------------------------------------------------
(* The environment: changes made to the disk by the operator of the server. *)
(* t is the modification time the file system stamps on what changes.       *)

\* Create a file, or overwrite the content of an existing one
WriteFile(p, d, t) ==
    /\ p \in FilePaths
    /\ IsDir(fsys, Parent(p))
    /\ fsys' = IF Exists(fsys, p)
               THEN [fsys EXCEPT ![p] = FileNode(t, d)]
               ELSE [fsys EXCEPT ![p] = FileNode(t, d), ![Parent(p)].mtime = t]

MakeDir(p, t) ==
    /\ p \in DirPaths \ {LayerRoot}
    /\ ~Exists(fsys, p)
    /\ IsDir(fsys, Parent(p))
    /\ fsys' = [fsys EXCEPT ![p] = DirNode(t), ![Parent(p)].mtime = t]

\* Delete a file, or a directory with everything in it
Remove(p, t) ==
    /\ p \in Paths \ {LayerRoot}
    /\ Exists(fsys, p)
    /\ fsys' = [q \in Paths |->
                  IF IsPrefix(p, q) THEN NoNode
                  ELSE IF q = Parent(p) THEN [fsys[q] EXCEPT !.mtime = t]
                  ELSE fsys[q]]

\* Move a file or a directory to the same place under the other layer name
Rename(p, l, t) ==
    /\ p \in Paths \ {LayerRoot}
    /\ Exists(fsys, p)
    /\ l \in LayerIds \ {p[1]}
    /\ LET q == [p EXCEPT ![1] = l]
       IN /\ ~Exists(fsys, q)
          /\ IsDir(fsys, Parent(q))
          /\ fsys' = [x \in Paths |->
                        IF IsPrefix(q, x) THEN fsys[[x EXCEPT ![1] = p[1]]]
                        ELSE IF IsPrefix(p, x) THEN NoNode
                        ELSE IF x \in {Parent(p), Parent(q)}
                             THEN [fsys[x] EXCEPT !.mtime = t]
                        ELSE fsys[x]]

\* Delete the artifact: the layer directory changes
DeleteCache(t) ==
    /\ cacheFile # NoFile
    /\ cacheFile' = NoFile
    /\ fsys' = [fsys EXCEPT ![LayerRoot].mtime = t]

\* Overwrite the artifact with bytes that do not decode
CorruptCache ==
    /\ cacheFile \notin {NoFile, Corrupt}
    /\ cacheFile' = Corrupt
    /\ UNCHANGED <<now, fsys, records, plainFs, config, stores, phase, build, loaded, req, resp, pool, saves>>

\* A change of the layer tree stamped t; the clock reading moves on
TreeChange(t, datas) ==
    /\ now < MaxClock
    /\ Exists(fsys, LayerRoot)
    /\ now' = now + 1
    /\ \/ \E p \in FilePaths, d \in datas : WriteFile(p, d, t) /\ UNCHANGED cacheFile
       \/ \E p \in DirPaths : MakeDir(p, t) /\ UNCHANGED cacheFile
       \/ \E p \in Paths : Remove(p, t) /\ UNCHANGED cacheFile
       \/ \E p \in Paths, l \in LayerIds : Rename(p, l, t) /\ UNCHANGED cacheFile
       \/ DeleteCache(t)
    /\ UNCHANGED <<records, plainFs, config, stores, phase, build, loaded, req, resp, pool, saves>>

\* With a reliable clock every change is stamped above all earlier stamps
ReliableChange == TreeChange(now + 1, {"B"})

\* An unreliable clock that did not advance stamps a change with the reading
\* of the change before it
SkewedChange == TreeChange(now, {"B"})

-----------------------------------------------------------------------------
(* util/etag.rs: fingerprints and the conditional fetch *)

\* The 64-bit digest of a content, as the decimal text format! prints
xxh3_64(content) == CASE content = "A" -> "digestA"
                      [] content = "B" -> "digestB"
                      [] content = "S" -> "digestS"

\* (mutant) the digest is not quoted
etag_hash_bare(content) == <<xxh3_64(content)>>

etag_hash(content) == <<"\"", xxh3_64(content), "\"">>

NoTag == << >>

\* (mutant) the digest alone, without the quotes, is accepted as well
etag_check_unquoted(content, headers) ==
    IF /\ headers.if_none_match # << >>
       /\ headers.if_none_match[1] \in {etag_hash(content), <<xxh3_64(content)>>}
    THEN <<[kind |-> "resp", status |-> "NOT_MODIFIED",
            body |-> [kind |-> "empty"], etag |-> etag_hash(content)]>>
    ELSE << >>

\* Some(response) as a one-element sequence, None as the empty one
etag_check(content, headers) ==
    IF /\ headers.if_none_match # << >>
       /\ headers.if_none_match[1] = etag_hash(content)
    THEN <<[kind |-> "resp", status |-> "NOT_MODIFIED",
            body |-> [kind |-> "empty"], etag |-> etag_hash(content)]>>
    ELSE << >>

-----------------------------------------------------------------------------
(* routes/play.rs: handle_other_path *)

\* str::split('/'): the runs between separators, empty ones included
RECURSIVE SplitAcc(_, _, _)
SplitAcc(s, cur, out) ==
    IF s = << >> THEN Append(out, cur)
    ELSE IF Head(s) = "/" THEN SplitAcc(Tail(s), << >>, Append(out, cur))
    ELSE SplitAcc(Tail(s), Append(cur, Head(s)), out)

Split(s) == SplitAcc(s, << >>, << >>)

TextBody(text) == [kind |-> "text", text |-> text]

\* What a handler returns, with the path it resolved (NoPath when it resolved
\* none) and the file system calls it made, in order
NoPath == [kind |-> "none"]
At(response, path, calls) ==
    [kind |-> "resp", status |-> response.status, body |-> response.body,
     etag |-> response.etag, path |-> path, fs_calls |-> calls]

Message(status, text) ==
    [kind |-> "resp", status |-> status, body |-> TextBody(text), etag |-> NoTag]

Served(content) ==
    [kind |-> "resp", status |-> "OK",
     body |-> [kind |-> "bytes", data |-> content], etag |-> etag_hash(content)]

PlainExists(fs, p) == p \in DOMAIN fs /\ fs[p].kind # "none"

read_file(fs, path, headers) ==
    IF ~PlainExists(fs, path)
    THEN At(Message("NOT_FOUND", "File not found"), path, <<"exists">>)
    ELSE IF fs[path].kind = "dir"
    THEN At(Message("NOT_FOUND", "File not found"), path, <<"exists", "is_dir">>)
    ELSE IF fs[path].len > MAX_FILE_SIZE
    THEN At(Message("BAD_REQUEST", "The file size exceeds the limit"), path,
            <<"exists", "is_dir", "metadata">>)
    ELSE IF ~fs[path].readable
    THEN At(Message("INTERNAL_SERVER_ERROR", "Failed to read file"), path,
            <<"exists", "is_dir", "metadata", "read">>)
    ELSE LET content == fs[path].data
             checked == etag_check(content, headers)
         IN At(IF checked # << >> THEN checked[1] ELSE Served(content), path,
               <<"exists", "is_dir", "metadata", "read">>)

is_traversal(component) == component = <<".", ".">>

\* (mutant) the parent component is skipped like the dot
is_skipped_parent_too(component) ==
    component = << >> \/ component = <<".">> \/ component = <<".", ".">>

\* (mutant) only empty components are skipped
is_skipped_empty_only(component) == component = << >>

is_skipped(component) == component = << >> \/ component = <<".">>

\* The loop over the components: the path built, or the refusal
RECURSIVE plain_components(_, _, _)
plain_components(components, actual_path, root_path) ==
    IF components = << >> THEN [forbidden |-> FALSE, path |-> actual_path]
    ELSE LET component == Head(components)
         IN IF is_skipped(component)
            THEN plain_components(Tail(components), actual_path, root_path)
            ELSE IF is_traversal(component)
            THEN [forbidden |-> TRUE, path |-> actual_path]
            ELSE plain_components(Tail(components),
                                  Append(actual_path, component), root_path)

handle_plain(fs, root_path, other_path, headers) ==
    LET walk == plain_components(Split(other_path), root_path, root_path)
    IN IF walk.forbidden
       THEN At(Message("FORBIDDEN", "Path traversal is not allowed"), NoPath, << >>)
       ELSE read_file(fs, walk.path, headers)

\* (mutant) the content is the one the file held when the server started
resolve_at_startup(fs, path) ==
    IF Exists(fs, path) /\ IsFile(fs, path) /\ fs[path].data # ReadError
    THEN <<ThemedTree[path].data>> ELSE << >>

\* FileNode::resolve: the content, or nothing
resolve(fs, path) ==
    IF Exists(fs, path) /\ IsFile(fs, path) /\ fs[path].data # ReadError
    THEN <<fs[path].data>> ELSE << >>

get_instance(info, instance_id) ==
    IF instance_id \in DOMAIN info.instances
    THEN <<info.instances[instance_id]>> ELSE << >>

handle_sugarcube(fs, info, instance_id, other_path, headers) ==
    LET instance == get_instance(info, instance_id)
    IN IF instance = << >>
       THEN At(Message("NOT_FOUND", "Instance ID not found"), NoPath, << >>)
       ELSE LET actual_node == mfs_get(instance[1].layer_merged, other_path)
            IN IF actual_node = << >>
               THEN At(Message("NOT_FOUND", "Path not found in instance"),
                       NoPath, << >>)
               ELSE LET content == resolve(fs, actual_node[1])
                        calls == IF Exists(fs, actual_node[1])
                                 THEN IF IsFile(fs, actual_node[1])
                                      THEN <<"exists", "is_file", "read">>
                                      ELSE <<"exists", "is_file">>
                                 ELSE <<"exists">>
                    IN IF content = << >>
                       THEN At(Message("NOT_FOUND", "Failed to resolve path"),
                               actual_node[1], calls)
                       ELSE LET checked == etag_check(content[1], headers)
                            IN At(IF checked # << >> THEN checked[1]
                                  ELSE Served(content[1]),
                                  actual_node[1], calls)

\* LoadedMapping: the ids of the entries it holds
Entries(mapping) == DOMAIN mapping \ {"kind"}

handle_other_path(mapping, lfs, pfs, r) ==
    IF r.manage_id \notin Entries(mapping)
    THEN At(Message("NOT_FOUND", "Info ID not found"), NoPath, << >>)
    ELSE IF r.manage_id = "plain"
    THEN handle_plain(pfs, mapping.plain.root_path, r.other_path, r.headers)
    ELSE handle_sugarcube(lfs, mapping.sc, r.instance_id, r.other_path, r.headers)

\* What fs::read returns for the files of the index and mod directories
StoreData(path) ==
    CASE path = <<"index", "main", "html">> -> "A"
      [] path = <<"mod", "m1", "v1", "zip">> -> "B"
      [] OTHER -> ReadError

\* handle_play_index: read_html
read_html(data, path, headers) ==
    IF data = ReadError
    THEN At(Message("INTERNAL_SERVER_ERROR", "Failed to read enter file"),
            path, <<"read">>)
    ELSE LET checked == etag_check(data, headers)
         IN At(IF checked # << >> THEN checked[1] ELSE Served(data),
               path, <<"read">>)

handle_play_index(mapping, pfs, r) ==
    IF r.manage_id \notin Entries(mapping)
    THEN At(Message("NOT_FOUND", "Info ID not found"), NoPath, << >>)
    ELSE IF r.manage_id = "plain"
    THEN LET path == mapping.plain.enter_path
         IN read_html(IF PlainExists(pfs, path) /\ pfs[path].kind = "file"
                         /\ pfs[path].readable
                      THEN pfs[path].data ELSE ReadError, path, r.headers)
    ELSE LET instance == get_instance(mapping.sc, r.instance_id)
         IN IF instance = << >>
            THEN At(Message("NOT_FOUND", "Instance ID not found"), NoPath, << >>)
            ELSE read_html(StoreData(instance[1].index_path),
                           instance[1].index_path, r.headers)

\* constants: the mod id of the bundled save-sync integration, and
\* routes/repo.rs: its bundled bytes and their tag
SSI_MOD_ID == "save-sync-integration"
SSI_MOD_INTERNAL == "S"
SAVE_SYNC_INTEGRATION_ETAG == etag_hash(SSI_MOD_INTERNAL)

\* SugarCubeInfo::get_mod
get_mod(info, mod_id, mod_sub_id) ==
    IF mod_id \in DOMAIN info.mods /\ mod_sub_id \in DOMAIN info.mods[mod_id]
    THEN <<info.mods[mod_id][mod_sub_id]>> ELSE << >>

\* routes/repo.rs: handle_sc_mods
handle_sc_mods(mapping, r) ==
    IF r.manage_id \notin Entries(mapping)
    THEN At(Message("NOT_FOUND", "SC Info ID not found"), NoPath, << >>)
    ELSE IF r.manage_id = "plain"
    THEN At(Message("NOT_FOUND", "Info Id found, but not SC type!"), NoPath, << >>)
    ELSE IF ~mapping.sc.use_mods
    THEN At(Message("BAD_REQUEST", "Game ID does not use mods"), NoPath, << >>)
    ELSE IF r.mod_id = SSI_MOD_ID
    THEN IF r.headers.if_none_match = <<SAVE_SYNC_INTEGRATION_ETAG>>
         THEN At([kind |-> "resp", status |-> "NOT_MODIFIED",
                  body |-> [kind |-> "empty"],
                  etag |-> SAVE_SYNC_INTEGRATION_ETAG], NoPath, << >>)
         ELSE At([kind |-> "resp", status |-> "OK",
                  body |-> [kind |-> "bytes", data |-> SSI_MOD_INTERNAL],
                  etag |-> SAVE_SYNC_INTEGRATION_ETAG], NoPath, << >>)
    ELSE LET path == get_mod(mapping.sc, r.mod_id, r.mod_sub_id)
         IN IF path = << >>
            THEN At(Message("NOT_FOUND", "Mod ID not found"), NoPath, << >>)
            ELSE IF StoreData(path[1]) = ReadError
            THEN At(Message("INTERNAL_SERVER_ERROR", "Failed to read mod file"),
                    path[1], <<"read">>)
            ELSE LET mod_data == StoreData(path[1])
                     checked == etag_check(mod_data, r.headers)
                 IN At(IF checked # << >> THEN checked[1] ELSE Served(mod_data),
                       path[1], <<"read">>)

\* format!("/repo/sc/mod/{manage_id}/{mod_id}/{mod_sub_id}")
ModUrl(manage_id, mod_id, mod_sub_id) ==
    <<"/", "repo", "/", "sc", "/", "mod", "/", manage_id, "/", mod_id, "/", mod_sub_id>>

\* format!("/sc/mod/{manage_id}/{SSI_MOD_ID}/0")
SsiUrl(manage_id) ==
    <<"/", "sc", "/", "mod", "/", manage_id, "/", SSI_MOD_ID, "/", "0">>

\* Json(mod_list).into_response()
Json(list) ==
    [kind |-> "resp", status |-> "OK", body |-> [kind |-> "json", list |-> list],
     etag |-> NoTag]

\* The orders in which a HashMap may yield its keys
Orders(keys) ==
    {order \in [1 .. Cardinality(keys) -> keys] : Range(order) = keys}

\* (mutant) the manifest is generated whatever use_mods says
generate_mod_list_ungated(info, instance_id, manage_id, order) ==
    LET instance == get_instance(info, instance_id)
    IN IF instance = << >>
       THEN Message("NOT_FOUND", "Instance ID not found")
       ELSE Json([i \in DOMAIN order |->
                    ModUrl(manage_id, order[i][1], order[i][2])]
                 \o (IF info.use_save_sync_mod THEN <<SsiUrl(manage_id)>> ELSE << >>))

\* SugarCubeInfo::generate_mod_list; order is the order in which
\* instance.mods_ref.keys() yields the pairs
generate_mod_list(info, instance_id, manage_id, order) ==
    IF ~info.use_mods
    THEN Message("BAD_REQUEST", "Mod list generation is disabled")
    ELSE LET instance == get_instance(info, instance_id)
         IN IF instance = << >>
            THEN Message("NOT_FOUND", "Instance ID not found")
            ELSE Json([i \in DOMAIN order |->
                         ModUrl(manage_id, order[i][1], order[i][2])]
                      \o (IF info.use_save_sync_mod
                          THEN <<SsiUrl(manage_id)>> ELSE << >>))

\* The orders the key iteration of the instance asked for may take
KeyOrders(mapping, r) ==
    IF /\ r.manage_id = "sc"
       /\ "sc" \in Entries(mapping)
       /\ r.instance_id \in DOMAIN mapping.sc.instances
    THEN Orders(DOMAIN mapping.sc.instances[r.instance_id].mods_ref)
    ELSE {<< >>}

\* routes/play.rs: handle_mod_list
handle_mod_list(mapping, r, order) ==
    IF r.manage_id \notin Entries(mapping)
    THEN At(Message("NOT_FOUND", "SC Info ID not found"), NoPath, << >>)
    ELSE IF r.manage_id = "plain"
    THEN At(Message("NOT_FOUND", "Info Id found, but not SC type!"), NoPath, << >>)
    ELSE At(generate_mod_list(mapping.sc, r.instance_id, r.manage_id, order),
            NoPath, << >>)

\* routes/asset.rs: the embedded front end, and static_handler
Assets == {<<"index.html">>}

static_handler(r) ==
    IF r.other_path \in Assets
    THEN At([kind |-> "resp", status |-> "OK",
             body |-> [kind |-> "bytes", data |-> "page"], etag |-> NoTag],
            NoPath, << >>)
    ELSE At(Message("NOT_FOUND", "File not found"), NoPath, << >>)

NoMod == "-"

\* The URL of a route of routes/play.rs
PlayUrl(manage_id, instance_id, rest) ==
    <<"/", "play", "/", manage_id, "/", instance_id, "/">> \o rest

Request(manage_id, instance_id, other_path, if_none_match) ==
    [kind |-> "pending", handler |-> "handle_other_path",
     url |-> PlayUrl(manage_id, instance_id, other_path),
     manage_id |-> manage_id, instance_id |-> instance_id,
     other_path |-> other_path, mod_id |-> NoMod, mod_sub_id |-> NoMod,
     headers |-> [if_none_match |-> if_none_match]]

IndexRequest(manage_id, instance_id, if_none_match) ==
    [Request(manage_id, instance_id, << >>, if_none_match)
        EXCEPT !.handler = "handle_play_index",
               !.url = PlayUrl(manage_id, instance_id, <<"index-path">>)]

ManifestRequest(manage_id, instance_id) ==
    [Request(manage_id, instance_id, << >>, << >>)
        EXCEPT !.handler = "handle_mod_list",
               !.url = PlayUrl(manage_id, instance_id, <<"modList.json">>)]

StaticRequest(path) ==
    [Request(NoMod, NoMod, path, << >>)
        EXCEPT !.handler = "static_handler", !.url = <<"/">> \o path]

ModRequest(manage_id, mod_id, mod_sub_id, if_none_match) ==
    [Request(manage_id, NoMod, << >>, if_none_match)
        EXCEPT !.handler = "handle_sc_mods", !.mod_id = mod_id,
               !.mod_sub_id = mod_sub_id,
               !.url = ModUrl(manage_id, mod_id, mod_sub_id)]

\* routes/mod.rs: main_routes, for a GET of url without request headers.  The
\* routers nested under /play and /repo contribute their routes with the
\* prefix; what matches none of them matches the wildcard of routes/asset.rs.
\* Ids are single symbols.
route(url) ==
    LET segs == Tail(Split(url))
        n == Len(segs)
        single(i) == Len(segs[i]) = 1
    IN IF /\ n = 6
          /\ SubSeq(segs, 1, 3) = <<<<"repo">>, <<"sc">>, <<"mod">>>>
          /\ single(4) /\ single(5) /\ single(6)
       THEN ModRequest(segs[4][1], segs[5][1], segs[6][1], << >>)
       ELSE IF n >= 4 /\ segs[1] = <<"play">> /\ single(2) /\ single(3)
       THEN IF n = 4 /\ segs[4] = <<"index-path">>
            THEN IndexRequest(segs[2][1], segs[3][1], << >>)
            ELSE IF n = 4 /\ segs[4] = <<"modList.json">>
            THEN ManifestRequest(segs[2][1], segs[3][1])
            ELSE Request(segs[2][1], segs[3][1], SubSeq(url, 8, Len(url)), << >>)
       ELSE StaticRequest(Tail(url))

\* The handler the router chose runs
respond(mapping, lfs, pfs, r) ==
    CASE r.handler = "handle_other_path" -> handle_other_path(mapping, lfs, pfs, r)
      [] r.handler = "handle_play_index" -> handle_play_index(mapping, pfs, r)
      [] r.handler = "handle_sc_mods" -> handle_sc_mods(mapping, r)
      [] r.handler = "static_handler" -> static_handler(r)

\* A request reaches the router
Arrive(r) ==
    /\ phase = "serving"
    /\ req.kind # "pending"
    /\ req' = r
    /\ resp' = NoResp
    /\ UNCHANGED <<now, fsys, cacheFile, records, plainFs, config, stores, phase, build, loaded,
                   pool, saves>>

\* The handler runs for the request in flight
Serve ==
    /\ phase = "serving"
    /\ req.kind = "pending"
    /\ req.handler # "handle_mod_list"
    /\ req' = [req EXCEPT !.kind = "done"]
    /\ resp' = respond(loaded, fsys, plainFs, req)
    /\ UNCHANGED <<now, fsys, cacheFile, records, plainFs, config, stores, phase, build, loaded,
                   pool, saves>>

\* handle_mod_list runs for the request in flight
ServeModList ==
    /\ phase = "serving"
    /\ req.kind = "pending"
    /\ req.handler = "handle_mod_list"
    /\ req' = [req EXCEPT !.kind = "done"]
    /\ \E order \in KeyOrders(loaded, req) :
          resp' = handle_mod_list(loaded, req, order)
    /\ UNCHANGED <<now, fsys, cacheFile, records, plainFs, config, stores, phase, build, loaded,
                   pool, saves>>

\* The client requests a URL of the manifest it received
Follow ==
    /\ phase = "serving"
    /\ req.kind = "done"
    /\ req.handler = "handle_mod_list"
    /\ resp.body.kind = "json"
    /\ \E i \in DOMAIN resp.body.list : req' = route(resp.body.list[i])
    /\ resp' = NoResp
    /\ UNCHANGED <<now, fsys, cacheFile, records, plainFs, config, stores, phase, build, loaded,
                   pool, saves>>

-----------------------------------------------------------------------------
(* Startups interleaved with changes of the layer tree *)

DemoRecords ==
    <<[stem |-> "inst", ext |-> "yaml",
       body |-> [kind |-> "config", id |-> "x", name |-> NoName, index |-> "main",
                 layers |-> <<"base", "theme">>, mods |-> << >>]]>>

InitCache ==
    /\ now = 1
    /\ fsys = SeededTree
    /\ cacheFile \in {NoFile, SeededCache}
    /\ records = DemoRecords
    /\ plainFs = SeededPlain
    /\ config = SeededConfig
    /\ phase = "down"
    /\ build = NoBuild
    /\ loaded = NotLoaded
    /\ req = NoReq
    /\ resp = NoResp
    /\ pool = IdlePool
    /\ saves = << >>
    /\ stores = SeededStores

NextCacheReliable ==
    \/ Startup
    \/ Shutdown
    \/ phase = "down" /\ ReliableChange
    \/ phase = "down" /\ CorruptCache

NextCache ==
    \/ NextCacheReliable
    \/ phase = "down" /\ SkewedChange

SpecCacheReliable == InitCache /\ [][NextCacheReliable]_vars

SpecCache == InitCache /\ [][NextCache]_vars

-----------------------------------------------------------------------------
(* Instance resolution over every list of record files *)

InitResolve ==
    /\ now = 1
    /\ fsys = SeededTree
    /\ cacheFile = SeededCache
    /\ records \in RecordLists
    /\ plainFs = SeededPlain
    /\ config = SeededConfig
    /\ phase = "down"
    /\ build = NoBuild
    /\ loaded = NotLoaded
    /\ req = NoReq
    /\ resp = NoResp
    /\ pool = IdlePool
    /\ saves = << >>
    /\ stores = SeededStores

NextResolve == Startup \/ Shutdown

SpecResolve == InitResolve /\ [][NextResolve]_vars

-----------------------------------------------------------------------------
(* Plain mode: one request in flight, over every sub-path *)

PathSymbols == {"/", ".", "a", "b"}

\* The wildcard segment of the route never matches the empty string
RequestPaths == SeqsUpTo(PathSymbols, MaxPathLen) \ {<< >>}

ClientTags == {<< >>, <<etag_hash("A")>>}

PlainRequests ==
    {Request("plain", "x", s, tag) : s \in RequestPaths, tag \in ClientTags}

InitPlain ==
    /\ now = 1
    /\ fsys = SeededTree
    /\ cacheFile = SeededCache
    /\ records = DemoRecords
    /\ plainFs \in PlainLayouts
    /\ config = SeededConfig
    /\ stores = SeededStores
    /\ LET S == load_data_dir(fsys, cacheFile, records, stores, config, now)
       IN /\ phase = S.phase
          /\ build = S.build
          /\ loaded = S.mapping
    /\ req \in PlainRequests
    /\ resp = NoResp
    /\ pool = IdlePool
    /\ saves = << >>

NextPlain == Serve

SpecPlain == InitPlain /\ [][NextPlain]_vars

-----------------------------------------------------------------------------
(* The server: startups, requests, and changes of the layer tree under it *)

ServeRecords ==
    DemoRecords \o
    <<[stem |-> "inst", ext |-> "yaml",
       body |-> [kind |-> "config", id |-> "y", name |-> NoName, index |-> "main",
                 layers |-> <<"theme", "base">>, mods |-> << >>]]>>

KeyIndex == <<"index.css">>

OverlayPaths == {KeyIndex, <<"a", "/", "b.png">>, <<".", "/", "index.css">>,
                 <<"b.png">>}

ServeRequests ==
    {Request("sc", "x", s, tag) :
        s \in {KeyIndex, <<"a", "/", "b.png">>}, tag \in {<< >>, <<etag_hash("A")>>}}
    \cup {Request("sc", "y", KeyIndex, << >>)}
    \cup {Request("sc", "x", s, << >>) : s \in OverlayPaths}
    \cup {Request("sc", "nope", KeyIndex, << >>)}
    \cup {Request("nope", "x", KeyIndex, << >>)}

\* The files of the layers that take part in overlays
LiveFiles == {p \in FilePaths : CacheName \notin Range(p)}

\* The permission to read a file is withdrawn: its modification time stays
Revoke(p) ==
    /\ IsFile(fsys, p)
    /\ fsys[p].data # ReadError
    /\ fsys' = [fsys EXCEPT ![p].data = ReadError]

\* A file is replaced by a directory of the same name
ReplaceByDir(p, t) ==
    /\ IsFile(fsys, p)
    /\ fsys' = [fsys EXCEPT ![p] = DirNode(t), ![Parent(p)].mtime = t]

\* A file of the layer tree is written, deleted, made unreadable or replaced
\* by a directory while the server runs
LiveChange ==
    /\ phase = "serving"
    /\ now < MaxClock
    /\ now' = now + 1
    /\ \/ \E p \in LiveFiles, d \in Bytes : WriteFile(p, d, now + 1)
       \/ \E p \in LiveFiles : Remove(p, now + 1)
       \/ \E p \in LiveFiles : Revoke(p)
       \/ \E p \in LiveFiles : ReplaceByDir(p, now + 1)
    /\ UNCHANGED <<cacheFile, records, plainFs, config, stores, phase, build, loaded, req, resp, pool, saves>>

Init ==
    /\ now = 1
    /\ fsys = ThemedTree
    /\ cacheFile = ThemedCache
    /\ records = ServeRecords
    /\ plainFs = SeededPlain
    /\ config = SeededConfig
    /\ phase = "down"
    /\ build = NoBuild
    /\ loaded = NotLoaded
    /\ req = NoReq
    /\ resp = NoResp
    /\ pool = IdlePool
    /\ saves = << >>
    /\ stores = SeededStores

Next ==
    \/ Startup
    \/ Shutdown
    \/ \E r \in ServeRequests : Arrive(r)
    \/ Serve
    \/ LiveChange

Spec == Init /\ [][Next]_vars

-----------------------------------------------------------------------------
(* Conditional fetch: every content handler, and clients that ask again with *)
(* the tag they were given                                                   *)

FetchRequests ==
    {Request("sc", "x", s, << >>) : s \in {KeyIndex, <<"b.png">>}}
    \cup {Request("plain", "x", s, << >>) :
            s \in {<<"a", "/", "b">>, <<"a">>, <<".", ".">>}}
    \cup {IndexRequest(m, i, << >>) : m \in {"sc", "plain"}, i \in {"x", "nope"}}
    \cup {ModRequest("sc", m[1], m[2], << >>) :
            m \in {<<"m1", "v1">>, <<"m2", "v2">>, <<SSI_MOD_ID, "0">>}}

\* Tags a client may hold that the server never issued for the content asked
StrayTags == {<<"digestB">>, <<"W/", "\"", "digestB", "\"">>}

\* The client repeats its request with the tag of the response it received,
\* or with a tag of its own
Revalidate ==
    /\ phase = "serving"
    /\ req.kind = "done"
    /\ resp.kind = "resp"
    /\ req.headers.if_none_match = << >>
    /\ \E tag \in (IF resp.etag = NoTag THEN {} ELSE {resp.etag}) \cup StrayTags :
          req' = [req EXCEPT !.kind = "pending", !.headers.if_none_match = <<tag>>]
    /\ resp' = NoResp
    /\ UNCHANGED <<now, fsys, cacheFile, records, plainFs, config, stores, phase, build, loaded,
                   pool, saves>>

\* The bytes of theme's index.css are rewritten while the server runs
LiveWrite ==
    /\ phase = "serving"
    /\ now < MaxClock
    /\ now' = now + 1
    /\ \E d \in Bytes : WriteFile(<<"theme", "index.css">>, d, now + 1)
    /\ UNCHANGED <<cacheFile, records, plainFs, config, stores, phase, build, loaded, req, resp, pool, saves>>

NextFetch ==
    \/ Startup
    \/ Shutdown
    \/ \E r \in FetchRequests : Arrive(r)
    \/ Revalidate
    \/ Serve
    \/ LiveWrite

SpecFetch == Init /\ [][NextFetch]_vars

-----------------------------------------------------------------------------
(* Startup over the configurations and the instance directories that make it *)
(* succeed or fail, followed by requests                                     *)

RecordFile(stem, ext, body) == [stem |-> stem, ext |-> ext, body |-> body]

\* Instance directories: a record that parses, alone, and with a second file
\* before or after it that does not
StartupRecords ==
    LET good == DemoRecords[1]
    IN {<< >>, DemoRecords,
        <<good, RecordFile("bad", "yaml", Malformed)>>,
        <<RecordFile("bad", "yaml", Malformed), good>>,
        <<RecordFile("bad", "YAML", Malformed), good>>,
        <<RecordFile("_example", "yaml", Malformed), good>>,
        <<RecordFile("_example", "json", Malformed), good>>,
        <<RecordFile("notes", "txt", Malformed), good>>,
        <<RecordFile("bad", "yaml", Unreadable), good>>}

StartupRequests ==
    {Request("sc", "x", KeyIndex, << >>),
     Request("plain", "x", NameB, << >>),
     IndexRequest("sc", "x", << >>),
     ModRequest("sc", "m1", "v1", << >>)}

InitStartup ==
    /\ now = 1
    /\ fsys = SeededTree
    /\ cacheFile = SeededCache
    /\ records \in StartupRecords
    /\ plainFs = SeededPlain
    /\ config \in ManageConfigs
    /\ phase = "down"
    /\ build = NoBuild
    /\ loaded = NotLoaded
    /\ req = NoReq
    /\ resp = NoResp
    /\ pool = IdlePool
    /\ saves = << >>
    /\ stores = SeededStores

NextStartup ==
    \/ Startup
    \/ Shutdown
    \/ \E r \in StartupRequests : Arrive(r)
    \/ Serve

SpecStartup == InitStartup /\ [][NextStartup]_vars

-----------------------------------------------------------------------------
(* The mod manifest: requests for it under every setting of the two flags,   *)
(* and clients that request the URLs it lists                                *)

\* x lists two pairs of the Mod Store around one the store does not have,
\* y lists none
ManifestRecords ==
    <<RecordFile("x", "yaml",
          [kind |-> "config", id |-> "x", name |-> NoName, index |-> "main",
           layers |-> <<"base">>,
           mods |-> <<<<"m1", "v1">>, <<"mX", "v1">>, <<"m2", "v2">>>>]),
      RecordFile("y", "yaml",
          [kind |-> "config", id |-> "y", name |-> NoName, index |-> "main",
           layers |-> <<"base">>, mods |-> << >>])>>

\* Requests for the manifest, and GETs of URLs the client composed itself
ManifestRequests ==
    {ManifestRequest(m, i) : m \in {"sc", "plain", "nope"}, i \in {"x", "y", "nope"}}
    \cup {route(url) : url \in {ModUrl("sc", "m1", "v1"), ModUrl("sc", "mX", "v1"),
                                ModUrl("sc", SSI_MOD_ID, "0"),
                                <<"/", "index.html">>, <<"/", "repo", "/", "sc">>}}

InitMods ==
    /\ now = 1
    /\ fsys = SeededTree
    /\ cacheFile = SeededCache
    /\ records = ManifestRecords
    /\ plainFs = SeededPlain
    /\ config \in {c \in ManageConfigs : c.manage = ManageIds}
    /\ phase = "down"
    /\ build = NoBuild
    /\ loaded = NotLoaded
    /\ req = NoReq
    /\ resp = NoResp
    /\ pool = IdlePool
    /\ saves = << >>
    /\ stores = SeededStores

NextMods ==
    \/ Startup
    \/ Shutdown
    \/ \E r \in ManifestRequests : Arrive(r)
    \/ ServeModList
    \/ Follow
    \/ Serve

SpecMods == InitMods /\ [][NextMods]_vars

-----------------------------------------------------------------------------
(* Requests handled in parallel: every handler holds the Arc<AppState> and   *)
(* runs on a worker thread of its own, first looking its target up in the    *)
(* registry, then doing its file system work and answering                   *)

\* routes/play.rs: the save routes of instance_id; save_id is the alias of an
\* upload and the file stem of a delete or a get
SaveRequest(handler, instance_id, save_id, code) ==
    [save_id |-> save_id, code |-> code] @@
    [Request("sc", instance_id, << >>, << >>)
        EXCEPT !.handler = handler,
               !.url = PlayUrl("sc", instance_id, <<"save-sync", "/", "access">>)]

\* check_save_func: << >> when the save directory may be used, else the
\* response; instance_ok is what info.check_instance finds
check_save_func(mapping, r, instance_ok) ==
    IF r.manage_id \notin Entries(mapping)
    THEN <<At(Message("NOT_FOUND", "SC Info ID not found"), NoPath, << >>)>>
    ELSE IF r.manage_id = "plain"
    THEN <<At(Message("NOT_FOUND", "Info Id found, but not SC type!"), NoPath, << >>)>>
    ELSE IF ~mapping.sc.use_save_sync_mod \/ ~mapping.sc.use_mods
    THEN <<At(Message("NOT_FOUND", "Feature 'use_save_sync_mod' is not enabled"),
              NoPath, << >>)>>
    ELSE IF ~instance_ok
    THEN <<At(Message("NOT_FOUND", "Instance ID not found"), NoPath, << >>)>>
    ELSE << >>

\* handle_save_upload at wall clock t: [resp, saves]
handle_save_upload(mapping, sv, r, t, instance_ok) ==
    LET checked == check_save_func(mapping, r, instance_ok)
        file_name == <<r.save_id, "@", t>>
    IN IF checked # << >> THEN [resp |-> checked[1], saves |-> sv]
       ELSE [resp |-> At([kind |-> "resp", status |-> "NO_CONTENT",
                          body |-> [kind |-> "empty"], etag |-> NoTag],
                         file_name, <<"exists", "write">>),
             saves |-> MapInsert(sv, file_name, r.code)]

\* handle_save_del: [resp, saves]
handle_save_del(mapping, sv, r, instance_ok) ==
    LET checked == check_save_func(mapping, r, instance_ok)
    IN IF checked # << >> THEN [resp |-> checked[1], saves |-> sv]
       ELSE IF r.save_id \in DOMAIN sv
       THEN [resp |-> At(Message("OK", "Successfully deleted"), r.save_id,
                         <<"exists", "remove_file">>),
             saves |-> [n \in DOMAIN sv \ {r.save_id} |-> sv[n]]]
       ELSE [resp |-> At(Message("OK", "Failed to find save file for deleting"),
                         r.save_id, <<"exists">>),
             saves |-> sv]

\* What the handler of r reads in the registry before it touches the disk
Resolution(mapping, r) ==
    IF r.manage_id \notin Entries(mapping) THEN << >>
    ELSE IF r.manage_id = "plain" THEN <<mapping.plain>>
    ELSE LET info == mapping.sc
             instance == get_instance(info, r.instance_id)
         IN CASE r.handler = "handle_other_path" ->
                   IF instance = << >> THEN << >>
                   ELSE mfs_get(instance[1].layer_merged, r.other_path)
              [] r.handler = "handle_play_index" ->
                   IF instance = << >> THEN << >> ELSE <<instance[1].index_path>>
              [] r.handler = "handle_mod_list" ->
                   IF instance = << >> THEN << >> ELSE <<DOMAIN instance[1].mods_ref>>
              [] r.handler = "handle_sc_mods" -> get_mod(info, r.mod_id, r.mod_sub_id)
              [] OTHER -> <<info.use_mods, info.use_save_sync_mod>>

\* The responses the handler of r may give, each with the save directory it leaves
Outcomes(mapping, lfs, pfs, sv, t, r) ==
    CASE r.handler = "handle_mod_list" ->
           {[resp |-> handle_mod_list(mapping, r, order), saves |-> sv] :
               order \in KeyOrders(mapping, r)}
      [] r.handler = "handle_save_upload" ->
           {handle_save_upload(mapping, sv, r, t, ok) : ok \in BOOLEAN}
      [] r.handler = "handle_save_del" ->
           {handle_save_del(mapping, sv, r, ok) : ok \in BOOLEAN}
      [] OTHER -> {[resp |-> respond(mapping, lfs, pfs, r), saves |-> sv]}

\* A worker thread takes a request
Accept(w, r) ==
    /\ phase = "serving"
    /\ pool[w] = Idle
    /\ pool' = [pool EXCEPT ![w] = [pc |-> "lookup", req |-> r,
                                    target |-> << >>, resp |-> NoResp]]
    /\ UNCHANGED <<now, fsys, cacheFile, records, plainFs, config, stores, phase, build, loaded,
                   req, resp, saves>>

\* (mutant) the lookup takes the instance out of the registry
Lookup_taking(w) ==
    /\ phase = "serving"
    /\ pool[w].pc = "lookup"
    /\ pool' = [pool EXCEPT ![w].pc = "respond",
                            ![w].target = Resolution(loaded, pool[w].req)]
    /\ loaded' = [loaded EXCEPT !.sc.instances =
                     [id \in DOMAIN @ \ {pool[w].req.instance_id} |-> @[id]]]
    /\ UNCHANGED <<now, fsys, cacheFile, records, plainFs, config, stores, phase, build,
                   req, resp, saves>>

\* Its handler reads the registry through state.get(id): a shared reference
Lookup(w) ==
    /\ phase = "serving"
    /\ pool[w].pc = "lookup"
    /\ pool' = [pool EXCEPT ![w].pc = "respond",
                            ![w].target = Resolution(loaded, pool[w].req)]
    /\ loaded' = loaded
    /\ UNCHANGED <<now, fsys, cacheFile, records, plainFs, config, stores, phase, build,
                   req, resp, saves>>

\* Its handler does its file system work and answers
Respond(w) ==
    /\ phase = "serving"
    /\ pool[w].pc = "respond"
    /\ \E out \in Outcomes(loaded, fsys, plainFs, saves, now, pool[w].req) :
          /\ pool' = [pool EXCEPT ![w].pc = "done", ![w].resp = out.resp]
          /\ saves' = out.saves
    /\ UNCHANGED <<now, fsys, cacheFile, records, plainFs, config, stores, phase, build, loaded,
                   req, resp>>

\* The response is sent and the worker is free again
Release(w) ==
    /\ phase = "serving"
    /\ pool[w].pc = "done"
    /\ pool' = [pool EXCEPT ![w] = Idle]
    /\ UNCHANGED <<now, fsys, cacheFile, records, plainFs, config, stores, phase, build, loaded,
                   req, resp, saves>>

ParallelRequests ==
    {Request("sc", "x", KeyIndex, << >>),
     IndexRequest("sc", "x", << >>),
     ManifestRequest("sc", "x"),
     ModRequest("sc", "m1", "v1", << >>),
     SaveRequest("handle_save_upload", "x", "s1", "A"),
     SaveRequest("handle_save_del", "x", <<"s1", "@", 1>>, "-")}

NextParallel ==
    \/ Startup
    \/ Shutdown
    \/ \E w \in Workers, r \in ParallelRequests : Accept(w, r)
    \/ \E w \in Workers : Lookup(w)
    \/ \E w \in Workers : Respond(w)
    \/ \E w \in Workers : Release(w)

SpecParallel == InitMods /\ [][NextParallel]_vars

-----------------------------------------------------------------------------
(* Overlay requests that name files of layers the instance does not list *)

\* x lists base alone, with and without an unknown layer, or both layers
ClosureRecords ==
    {<<RecordFile("x", "yaml",
          [kind |-> "config", id |-> "x", name |-> NoName, index |-> "main",
           layers |-> layers, mods |-> << >>])>> :
        layers \in {<<"base">>, <<"ghost", "base">>, <<"theme">>, <<"base", "theme">>,
                    <<"ghost">>}}

\* Keys, and paths that reach for the other layer or above the layer root
ClosureRequests ==
    {Request("sc", "x", s, << >>) :
        s \in {KeyIndex, <<"a", "/", "b.png">>,
               <<"theme", "/", "index.css">>,
               <<".", ".", "/", "theme", "/", "index.css">>,
               <<"a", "/", ".", ".", "/", "index.css">>,
               <<".", ".", "/", "cache.bin">>,
               <<"/", "theme", "/", "index.css">>}}

InitClosure ==
    /\ now = 1
    /\ fsys = ThemedTree
    /\ cacheFile \in {NoFile, ThemedCache}
    /\ records \in ClosureRecords
    /\ plainFs = SeededPlain
    /\ config = SeededConfig
    /\ phase = "down"
    /\ build = NoBuild
    /\ loaded = NotLoaded
    /\ req = NoReq
    /\ resp = NoResp
    /\ pool = IdlePool
    /\ saves = << >>
    /\ stores = SeededStores

NextClosure ==
    \/ Startup
    \/ Shutdown
    \/ \E r \in ClosureRequests : Arrive(r)
    \/ Serve

SpecClosure == InitClosure /\ [][NextClosure]_vars

-----------------------------------------------------------------------------
(* Startups over the directories of a SugarCube entry: any of the layer,   *)
(* index, mod and instance directories may be missing, and the mod         *)
(* directory holds archives at several depths and with several spellings   *)
(* of the extension                                                        *)

\* The layers the example record names, each with one file
ExamplePaths ==
    {<< >>, <<"layer1">>, <<"layer1", "index.css">>,
     <<"layer2">>, <<"layer2", "index.css">>}

ExampleTree ==
    [p \in ExamplePaths |-> IF Len(p) = 2 THEN FileNode(1, "A") ELSE DirNode(1)]

\* The layer directory is missing, or exists and is empty
NoTree == [p \in ExamplePaths |-> NoNode]
BareTree == [NoTree EXCEPT ![LayerRoot] = DirNode(1)]

ArchiveFiles ==
    {[dir |-> <<"mod1">>, stem |-> "1.0", ext |-> "zip"],
     [dir |-> <<"mod2">>, stem |-> "0.3.9-test", ext |-> "zip"],
     [dir |-> <<"mod1">>, stem |-> "2.0", ext |-> "ZIP"],
     [dir |-> <<"mod2", "old">>, stem |-> "0.3.8", ext |-> "zip"],
     [dir |-> <<"mod2">>, stem |-> "notes", ext |-> "txt"],
     [dir |-> << >>, stem |-> "loose", ext |-> "zip"]}

\* A mod directory with the files F and, besides the subdirectories the
\* files are in, the subdirectories E
ModDir(F, E) == Dir({f.dir[1] : f \in {g \in F : g.dir # << >>}} \cup E, F)

ModDirs == {NoDir} \cup {ModDir(F, E) : F \in SUBSET ArchiveFiles, E \in {{}, {"mod3"}}}

IndexDirs ==
    {NoDir, Dir({}, {}), Dir({}, {[stem |-> "index", ext |-> "html"]}),
     Dir({}, {[stem |-> "index", ext |-> "HTML"], [stem |-> "index", ext |-> "txt"]})}

\* A record of the operator's own that names what the example names, and a
\* record of the operator's own in a file that has the example's name
OwnRecord ==
    RecordFile("own", "yaml",
               [kind |-> "config", id |-> "own", name |-> "Own", index |-> "index",
                layers |-> <<"layer1", "layer2">>,
                mods |-> <<<<"mod1", "1.0">>, <<"mod2", "0.3.9-test">>>>])

ShadowRecord ==
    RecordFile("_example", "yaml",
               [kind |-> "config", id |-> "shadow", name |-> "Shadow", index |-> "index",
                layers |-> <<"layer1">>, mods |-> << >>])

StoreRecordLists ==
    {<< >>, <<example_path>>, <<OwnRecord>>, <<example_path, OwnRecord>>,
     <<OwnRecord, ShadowRecord>>}

InitStore ==
    /\ now = 1
    /\ fsys \in {NoTree, BareTree, ExampleTree}
    /\ cacheFile = NoFile
    /\ stores \in [index_dir : IndexDirs, mod_dir : ModDirs, instance_dir : BOOLEAN]
    /\ records \in IF stores.instance_dir THEN StoreRecordLists ELSE {<< >>}
    /\ plainFs = SeededPlain
    /\ config \in [use_mods : BOOLEAN, use_save_sync : {TRUE}, manage : {{"sc"}}]
    /\ phase = "down"
    /\ build = NoBuild
    /\ loaded = NotLoaded
    /\ req = NoReq
    /\ resp = NoResp
    /\ pool = IdlePool
    /\ saves = << >>

NextStore == Startup \/ Shutdown

SpecStore == InitStore /\ [][NextStore]_vars

-----------------------------------------------------------------------------
(* Startups over a layer tree in which the process is denied the listing   *)
(* of some directories                                                     *)

\* chmod on a directory of the layer tree while the server is down: the
\* listing is denied, or granted again; no modification time changes
Chmod(p) ==
    /\ phase = "down"
    /\ IsDir(fsys, p)
    /\ p # LayerRoot
    /\ fsys' = [fsys EXCEPT ![p].data = IF Listable(fsys, p) THEN ReadError ELSE "-"]
    /\ UNCHANGED <<now, cacheFile, records, plainFs, config, stores, phase, build, loaded,
                   req, resp, pool, saves>>

InitScan ==
    /\ now = 1
    /\ fsys = ThemedTree
    /\ cacheFile \in {NoFile, ThemedCache}
    /\ records = DemoRecords
    /\ plainFs = SeededPlain
    /\ config = SeededConfig
    /\ phase = "down"
    /\ build = NoBuild
    /\ loaded = NotLoaded
    /\ req = NoReq
    /\ resp = NoResp
    /\ pool = IdlePool
    /\ saves = << >>
    /\ stores = SeededStores

NextScan == Startup \/ Shutdown \/ (\E p \in DirPaths : Chmod(p))

SpecScan == InitScan /\ [][NextScan]_vars

-----------------------------------------------------------------------------
(* Properties of instance resolution *)

\* The stores the resolver was given at the last startup
LayerStore == build.map
IndexStore == create_indexes(stores.index_dir)
InstanceDir == [exists |-> stores.instance_dir, files |-> records]
ModStore == loaded.sc.mods

Resolved == phase = "serving"

\* Positions, in walk order, of the record files that parse and name a known index
Walked == Walker(records)

ValidAt(id) ==
    {i \in DOMAIN Walked :
        /\ Walked[i].body.kind = "config"
        /\ Walked[i].body.id = id
        /\ Walked[i].body.index \in DOMAIN IndexStore}

\* The record an instance was built from: the last one processed with its id
RecordOf(id) == Walked[SetMax(ValidAt(id))].body

\* Positions of the layers of a list that exist in the store and define key k
Definers(layers, k) ==
    {i \in DOMAIN layers :
        layers[i] \in DOMAIN LayerStore /\ k \in DOMAIN LayerStore[layers[i]]}

\* C1: every key of a resolved instance's merged overlay maps to the file that
\* key has in the last layer of the record's list that exists and defines it.
C1_MergeOrder ==
    Resolved =>
        \A id \in DOMAIN loaded.sc.instances :
            LET layers == RecordOf(id).layers
                overlay == loaded.sc.instances[id].layer_merged
            IN \A k \in DOMAIN overlay :
                  /\ Definers(layers, k) # {}
                  /\ overlay[k] =
                        LayerStore[layers[SetMax(Definers(layers, k))]][k]

KeyAB == <<"a", "/", "b.png">>

\* [base, theme] resolves a/b.png to theme's file and [theme, base] to base's
C1_Witness ==
    /\ Resolved
    /\ \E i, j \in DOMAIN loaded.sc.instances :
          /\ RecordOf(i).layers = <<"base", "theme">>
          /\ RecordOf(j).layers = <<"theme", "base">>
          /\ loaded.sc.instances[i].layer_merged[KeyAB] = <<"theme", "a", "b.png">>
          /\ loaded.sc.instances[j].layer_merged[KeyAB] = <<"base", "a", "b.png">>

\* C2: an id is in the instance map exactly when some record declaring it names
\* a known index; a record with an unknown index contributes nothing, and the
\* instance of an id carries the index of a record that named a known one.
C2_UnknownIndexDiscards ==
    Resolved =>
        \A id \in InstanceIds :
            /\ id \in DOMAIN loaded.sc.instances <=> ValidAt(id) # {}
            /\ id \in DOMAIN loaded.sc.instances =>
                  loaded.sc.instances[id].index_path = IndexStore[RecordOf(id).index]

\* A record with an unknown index, layers and mods is absent while the other is resolved
C2_Witness ==
    /\ Resolved
    /\ \E i, j \in DOMAIN Walked :
          /\ i < j
          /\ Walked[i].body.index = "nope"
          /\ Walked[i].body.layers # << >>
          /\ Walked[i].body.mods # << >>
          /\ Walked[i].body.id \notin DOMAIN loaded.sc.instances
          /\ Walked[j].body.id \in DOMAIN loaded.sc.instances

\* The in-order fold of the layers of a list, none skipped
FoldOf(layers) ==
    [k \in UNION {DOMAIN LayerStore[layers[i]] : i \in DOMAIN layers} |->
        LayerStore[layers[SetMax({i \in DOMAIN layers : k \in DOMAIN LayerStore[layers[i]]})]][k]]

\* C3: a record with a known index is resolved whatever layers it names, and
\* its overlay is the in-order fold of the listed layers that exist.
C3_UnknownLayerPartial ==
    Resolved =>
        \A id \in InstanceIds :
            ValidAt(id) # {} =>
                /\ id \in DOMAIN loaded.sc.instances
                /\ loaded.sc.instances[id].layer_merged =
                      FoldOf(SelectSeq(RecordOf(id).layers,
                                       LAMBDA l : l \in DOMAIN LayerStore))

\* One instance folds the layers after and before an unknown one, another
\* names only an unknown layer and has the empty overlay
C3_Witness ==
    /\ Resolved
    /\ \E i, j \in DOMAIN loaded.sc.instances :
          /\ RecordOf(i).layers = <<"ghost", "base">>
          /\ DOMAIN loaded.sc.instances[i].layer_merged = DOMAIN LayerStore["base"]
          /\ RecordOf(j).layers = <<"ghost">>
          /\ loaded.sc.instances[j].layer_merged = EmptyMap

\* The pairs of a list that the Mod Store resolves
Known(mods) ==
    {p \in Range(mods) : p[1] \in DOMAIN ModStore /\ p[2] \in DOMAIN ModStore[p[1]]}

\* C4: the mod references of a resolved instance are exactly the pairs of its
\* record that the Mod Store resolves, each with the store's file.
C4_ModRefIntegrity ==
    Resolved =>
        \A id \in DOMAIN loaded.sc.instances :
            LET mods_ref == loaded.sc.instances[id].mods_ref
            IN /\ DOMAIN mods_ref = Known(RecordOf(id).mods)
               /\ \A p \in DOMAIN mods_ref : mods_ref[p] = ModStore[p[1]][p[2]]

\* An unknown mod id before a known pair, an unknown sub id after one
C4_Witness ==
    /\ Resolved
    /\ \E i, j \in DOMAIN loaded.sc.instances :
          /\ RecordOf(i).mods = <<<<"mX", "v1">>, <<"m1", "v1">>>>
          /\ DOMAIN loaded.sc.instances[i].mods_ref = {<<"m1", "v1">>}
          /\ RecordOf(j).mods = <<<<"m1", "v1">>, <<"m1", "vX">>>>
          /\ DOMAIN loaded.sc.instances[j].mods_ref = {<<"m1", "v1">>}

-----------------------------------------------------------------------------
(* Properties of the layer cache *)

\* The largest modification time of anything under the layer root; the
\* artifact is not part of the tree
TreeMax(fs) == SetMax({fs[p].mtime : p \in {q \in Paths : Exists(fs, q)}})

\* The snapshot the last startup found in the artifact, when it decoded
SnapshotFound == build.kind = "built" /\ build.before.kind = "bin"

Snapshot == decode_cache(build.before)[1]

\* C5: a snapshot that decodes and is at least as new as current_modified, the
\* newest time the walk of the layer root saw, is returned as it is: no rescan,
\* and the artifact is not rewritten.
C5_CacheFreshness ==
    (/\ SnapshotFound
     /\ Snapshot.last_modified >= build.current_modified)
    => /\ build.path = "cached"
       /\ build.map = Snapshot.layer_map
       /\ ~build.wrote
       /\ cacheFile = build.before

\* A fresh snapshot is returned although the disk holds other layers by now
C5_Witness ==
    /\ SnapshotFound
    /\ Snapshot.last_modified >= TreeMax(fsys)
    /\ build.path = "cached"
    /\ build.map = Snapshot.layer_map
    /\ build.map # scan_layers(fsys, LayerRoot)

\* C6 as claimed: when anything under the layer root is newer than the snapshot,
\* the build rebuilds from disk and returns the rebuilt map.
C6_StalenessDetection ==
    (/\ SnapshotFound
     /\ \E p \in Paths : Exists(fsys, p) /\ fsys[p].mtime > Snapshot.last_modified)
    => /\ build.path = "rebuilt"
       /\ build.map = scan_layers(fsys, LayerRoot)

\* C7 as claimed: with a reliable clock, a cached map that is returned is the
\* map a rebuild from the disk would produce.
C7_CacheCoherence ==
    (build.kind = "built" /\ build.path = "cached")
    => build.map = scan_layers(fsys, LayerRoot)

-----------------------------------------------------------------------------
(* Properties of plain mode *)

Handled ==
    req.kind = "done" /\ resp.kind = "resp" /\ req.handler = "handle_other_path"

\* Positions i..j of s hold a whole component: bounded by the ends of s or by
\* separators, with no separator inside
WholeComponent(s, i, j) ==
    /\ i <= j + 1
    /\ i = 1 \/ s[i - 1] = "/"
    /\ j = Len(s) \/ s[j + 1] = "/"
    /\ \A k \in i..j : s[k] # "/"

HasParentComponent(s) ==
    \E i \in 1..Len(s) : i < Len(s) /\ WholeComponent(s, i, i + 1)
                         /\ s[i] = "." /\ s[i + 1] = "."

\* The whole components of s other than the empty one and the dot, in order
RECURSIVE NamedFrom(_, _)
NamedFrom(s, i) ==
    IF i > Len(s) THEN << >>
    ELSE IF s[i] = "/" THEN NamedFrom(s, i + 1)
    ELSE LET j == CHOOSE k \in i..Len(s) : WholeComponent(s, i, k)
             c == SubSeq(s, i, j)
         IN (IF c = <<".">> THEN << >> ELSE <<c>>) \o NamedFrom(s, j + 1)

Named(s) == NamedFrom(s, 1)

\* The spelling with exactly the named components
RECURSIVE Canonical(_)
Canonical(comps) ==
    IF comps = << >> THEN << >>
    ELSE IF Len(comps) = 1 THEN comps[1]
    ELSE comps[1] \o <<"/">> \o Canonical(Tail(comps))

\* C8: a plain-mode request whose sub-path has a component equal to ".." is
\* answered Forbidden, and no file system call is made for it
C8_TraversalRejected ==
    (Handled /\ req.manage_id = "plain" /\ HasParentComponent(req.other_path))
        => (resp.status = "FORBIDDEN" /\ resp.fs_calls = << >>)

C8_Witness ==
    /\ Handled /\ req.manage_id = "plain"
    /\ req.other_path = <<"a", "/", ".", ".">>
    /\ PlainExists(plainFs, <<NameA>>)
    /\ resp.status = "FORBIDDEN"

\* C9: a plain-mode request without a ".." component resolves to the root
\* followed by its components other than the empty one and ".", in order, and
\* is answered as the request that spells exactly those components is
C9_PlainNormalization ==
    (Handled /\ req.manage_id = "plain" /\ ~HasParentComponent(req.other_path))
        => LET named == Named(req.other_path)
               plain == [req EXCEPT !.other_path = Canonical(named)]
               same == handle_other_path(loaded, fsys, plainFs, plain)
           IN /\ resp.path = loaded.plain.root_path \o named
              /\ named # << >> =>
                    /\ resp.status = same.status
                    /\ resp.body = same.body
                    /\ resp.etag = same.etag
                    /\ resp.path = same.path

C9_Witness ==
    /\ Handled /\ req.manage_id = "plain"
    /\ req.other_path \in {<<"a", "/", ".", "/", "b">>, <<"a", "/", "/", "b">>,
                           <<".", "/", "a", "/", "b">>, <<"a", "/", "b", "/">>}
    /\ resp.status = "OK"
    /\ resp.path = <<NameA, NameB>>
    /\ resp.body = [kind |-> "bytes", data |-> plainFs[<<NameA, NameB>>].data]

-----------------------------------------------------------------------------
(* Properties of overlay mode *)

\* The request in flight is for a key of its instance's overlay whose mapped
\* file can be read
OverlayHit ==
    /\ phase = "serving" /\ req.kind = "pending" /\ req.manage_id = "sc"
    /\ req.handler = "handle_other_path"
    /\ req.instance_id \in DOMAIN loaded.sc.instances
    /\ req.other_path \in DOMAIN loaded.sc.instances[req.instance_id].layer_merged
    /\ resolve(fsys, loaded.sc.instances[req.instance_id].layer_merged[req.other_path])
          # << >>

Mapped == loaded.sc.instances[req.instance_id].layer_merged[req.other_path]

Current == [kind |-> "bytes", data |-> fsys[Mapped].data]

Matching == req.headers.if_none_match = <<etag_hash(fsys[Mapped].data)>>

InLayer(l, k) == l \in DOMAIN LayerStore /\ k \in DOMAIN LayerStore[l]

\* C10 as stated: every overlay-mode request for a key of the overlay whose
\* mapped file can be read is answered OK with the bytes the file holds then
C10_AlwaysOk ==
    [][(OverlayHit /\ req'.kind = "done")
          => (resp'.status = "OK" /\ resp'.body = Current)]_vars

\* C10: an overlay-mode request for a key of the overlay whose mapped file
\* can be read is answered OK with the bytes the file holds at that moment,
\* unless it carries the fingerprint of those bytes, and then it is answered
\* Not Modified; with index.css in base and theme and layers [base, theme]
\* the file read is theme's
C10_OverlayCurrentBytes ==
    [][(OverlayHit /\ req'.kind = "done")
          => /\ IF Matching
                THEN resp'.status = "NOT_MODIFIED" /\ resp'.body = [kind |-> "empty"]
                ELSE resp'.status = "OK" /\ resp'.body = Current
             /\ resp'.etag = etag_hash(fsys[Mapped].data)
             /\ (/\ req.other_path = KeyIndex
                 /\ RecordOf(req.instance_id).layers = <<"base", "theme">>
                 /\ InLayer("base", KeyIndex)
                 /\ InLayer("theme", KeyIndex))
                    => Mapped = <<"theme", "index.css">>]_vars

\* index.css of [base, theme] was served with bytes written after startup
C10_Witness ==
    /\ Handled /\ req.manage_id = "sc" /\ req.instance_id = "x"
    /\ req.other_path = KeyIndex
    /\ build.path = "cached"
    /\ InLayer("base", KeyIndex)
    /\ resp.status = "OK"
    /\ resp.path = <<"theme", "index.css">>
    /\ resp.body = [kind |-> "bytes", data |-> "A"]
    /\ ThemedTree[<<"theme", "index.css">>].data = "B"
    /\ fsys[<<"theme", "index.css">>].data = "A"

\* An overlay-mode request is in flight for an instance that exists
OverlayAsked ==
    /\ phase = "serving" /\ req.kind = "pending" /\ req.manage_id = "sc"
    /\ req.handler = "handle_other_path"
    /\ req.instance_id \in DOMAIN loaded.sc.instances

\* C11: an overlay-mode request whose path is no key of the instance's overlay,
\* or whose mapped file is missing, is no regular file or cannot be read, is
\* answered Not Found: no content is returned and the server keeps serving
C11_OverlayAbsence ==
    [][(OverlayAsked /\ ~OverlayHit /\ req'.kind = "done")
          => /\ resp'.status = "NOT_FOUND"
             /\ resp'.body.kind = "text"
             /\ resp'.etag = NoTag
             /\ phase' = "serving"
             /\ loaded' = loaded]_vars

\* A key of the overlay was asked for after its file was deleted under the
\* running server
C11_Witness ==
    /\ Handled /\ req.manage_id = "sc" /\ req.instance_id = "x"
    /\ req.other_path = KeyIndex
    /\ phase = "serving"
    /\ KeyIndex \in DOMAIN loaded.sc.instances["x"].layer_merged
    /\ ~Exists(fsys, loaded.sc.instances["x"].layer_merged[KeyIndex])
    /\ resp.status = "NOT_FOUND"
    /\ resp.fs_calls = <<"exists">>

\* C12 as claimed: an overlay-mode request whose path spells the components
\* of an overlay key, with empty or "." components added, resolves to the
\* file the key itself is mapped to
C12_OverlayNormalization ==
    (/\ Handled /\ req.manage_id = "sc"
     /\ req.instance_id \in DOMAIN loaded.sc.instances
     /\ ~HasParentComponent(req.other_path)
     /\ Canonical(Named(req.other_path))
            \in DOMAIN loaded.sc.instances[req.instance_id].layer_merged)
    => /\ resp.fs_calls # << >>
       /\ resp.path = loaded.sc.instances[req.instance_id].layer_merged[
                           Canonical(Named(req.other_path))]

-----------------------------------------------------------------------------
(* Properties of the conditional fetch *)

\* The bytes the handler of the request in flight reads, as a one-element
\* sequence, or the empty sequence when it reads no content
PlainTarget == loaded.plain.root_path \o Named(req.other_path)

BytesAsked ==
    IF req.handler = "handle_other_path" /\ req.manage_id = "sc"
    THEN IF OverlayHit THEN <<fsys[Mapped].data>> ELSE << >>
    ELSE IF req.handler = "handle_other_path" /\ req.manage_id = "plain"
    THEN IF /\ ~HasParentComponent(req.other_path)
            /\ PlainExists(plainFs, PlainTarget)
            /\ plainFs[PlainTarget].kind = "file"
            /\ plainFs[PlainTarget].len <= MAX_FILE_SIZE
            /\ plainFs[PlainTarget].readable
         THEN <<plainFs[PlainTarget].data>> ELSE << >>
    ELSE IF req.handler = "handle_play_index" /\ req.manage_id = "sc"
    THEN IF /\ req.instance_id \in DOMAIN loaded.sc.instances
            /\ StoreData(loaded.sc.instances[req.instance_id].index_path) # ReadError
         THEN <<StoreData(loaded.sc.instances[req.instance_id].index_path)>>
         ELSE << >>
    ELSE IF req.handler = "handle_play_index" /\ req.manage_id = "plain"
    THEN IF /\ PlainExists(plainFs, loaded.plain.enter_path)
            /\ plainFs[loaded.plain.enter_path].kind = "file"
            /\ plainFs[loaded.plain.enter_path].readable
         THEN <<plainFs[loaded.plain.enter_path].data>> ELSE << >>
    ELSE IF req.handler = "handle_sc_mods" /\ req.manage_id = "sc"
            /\ loaded.sc.use_mods
    THEN IF req.mod_id = SSI_MOD_ID THEN <<SSI_MOD_INTERNAL>>
         ELSE IF /\ req.mod_id \in DOMAIN loaded.sc.mods
                 /\ req.mod_sub_id \in DOMAIN loaded.sc.mods[req.mod_id]
                 /\ StoreData(loaded.sc.mods[req.mod_id][req.mod_sub_id]) # ReadError
         THEN <<StoreData(loaded.sc.mods[req.mod_id][req.mod_sub_id])>>
         ELSE << >>
    ELSE << >>

\* The tag: the decimal digest of the bytes between double quotes
TagOf(bytes) == <<"\"", xxh3_64(bytes), "\"">>

-----------------------------------------------------------------------------
(* Properties of the resolution pass as a whole *)

\* The instance one record alone resolves to
BuiltFrom(c) ==
    [id |-> c.id,
     name |-> c.name,
     index_path |-> IndexStore[c.index],
     layer_merged |-> FoldOf(SelectSeq(c.layers, LAMBDA l : l \in DOMAIN LayerStore)),
     mods_ref |-> [p \in Known(c.mods) |-> ModStore[p[1]][p[2]]]]

\* C15: an id declared by several record files with valid indexes has one
\* instance, the one built from the record processed last: name, index,
\* overlay and mod references, with nothing of the earlier records
C15_DuplicateIds ==
    Resolved =>
        \A id \in InstanceIds :
            Cardinality(ValidAt(id)) >= 2 =>
                /\ id \in DOMAIN loaded.sc.instances
                /\ loaded.sc.instances[id] = BuiltFrom(Walked[SetMax(ValidAt(id))].body)

\* Two records declare x with different names, layers and mods; the instance
\* is the second one's
C15_Witness ==
    /\ Resolved
    /\ Len(Walked) = 2
    /\ ValidAt("x") = {1, 2}
    /\ Walked[2].body = NamedConfig
    /\ Walked[1].body.layers = <<"base", "theme">>
    /\ Walked[1].body.mods # << >>
    /\ loaded.sc.instances["x"] = BuiltFrom(NamedConfig)
    /\ loaded.sc.instances["x"] # BuiltFrom(Walked[1].body)
    /\ DOMAIN loaded.sc.instances = {"x"}

-----------------------------------------------------------------------------
(* Properties of startup *)

\* The record files the loop parses: walked, and read without error
ParseFails == \E i \in DOMAIN Walked : Walked[i].body = Malformed

\* C16: when a record file with a supported extension fails to parse,
\* create_instances returns an error and no map, whatever was resolved before
\* the file; startup fails, no registry exists and no request is served
C16_MalformedAborts ==
    (phase # "down" /\ "sc" \in config.manage /\ ParseFails) =>
        /\ LET R == create_instances(InstanceDir, IndexStore, LayerStore,
                                     IF config.use_mods
                                     THEN create_mods(stores.mod_dir)
                                     ELSE EmptyMap)
           IN ~R.ok /\ R.map = EmptyMap
        /\ phase = "failed"
        /\ loaded = NotLoaded
        /\ req = NoReq
        /\ resp = NoResp

\* Startup failed on a malformed file that follows a record that resolves
C16_Witness ==
    /\ phase = "failed"
    /\ "sc" \in config.manage
    /\ Len(Walked) = 2
    /\ Walked[1] = DemoRecords[1]
    /\ Walked[2].body = Malformed
    /\ loaded = NotLoaded

-----------------------------------------------------------------------------
(* Properties of the mod manifest *)

\* A manifest request for the SugarCube entry has been answered
ManifestAnswered ==
    /\ phase = "serving"
    /\ req.kind = "done"
    /\ req.handler = "handle_mod_list"
    /\ req.manage_id = "sc"

\* The URLs of the pairs of the record of instance id that the store resolves
PairUrls(id) == {ModUrl("sc", p[1], p[2]) : p \in Known(RecordOf(id).mods)}

\* C17: without use_mods the manifest request is answered with an error and
\* no list; with use_mods, for an instance that exists, the list holds one URL
\* for each pair the instance resolved, each once, none for a dropped pair,
\* and after them one integration URL exactly when use_save_sync is set
C17_ManifestGating ==
    ManifestAnswered =>
        /\ ~config.use_mods =>
              resp.status = "BAD_REQUEST" /\ resp.body.kind = "text"
        /\ (config.use_mods /\ req.instance_id \in DOMAIN loaded.sc.instances) =>
              /\ resp.status = "OK"
              /\ resp.body.kind = "json"
              /\ LET list == resp.body.list
                     n == Cardinality(PairUrls(req.instance_id))
                 IN /\ Len(list) = n + (IF config.use_save_sync THEN 1 ELSE 0)
                    /\ {list[i] : i \in 1 .. n} = PairUrls(req.instance_id)
                    /\ config.use_save_sync => list[n + 1] = SsiUrl("sc")

\* The manifest of x, with both flags set: two pair URLs, none for the pair
\* the store lacks, then the integration URL
C17_Witness ==
    /\ ManifestAnswered
    /\ req.instance_id = "x"
    /\ config.use_mods
    /\ config.use_save_sync
    /\ resp.body.kind = "json"
    /\ resp.body.list = <<ModUrl("sc", "m2", "v2"), ModUrl("sc", "m1", "v1"),
                          SsiUrl("sc")>>
    /\ ModUrl("sc", "mX", "v1") \notin Range(resp.body.list)

\* The URLs of the manifests the SugarCube entry can produce
ManifestUrls ==
    LET manifests(id) ==
            {generate_mod_list(loaded.sc, id, "sc", order) :
                order \in Orders(DOMAIN loaded.sc.instances[id].mods_ref)}
    IN UNION {Range(m.body.list) :
                m \in {m \in UNION {manifests(id) : id \in DOMAIN loaded.sc.instances} :
                          m.body.kind = "json"}}

\* C18: a request for a URL of a manifest is routed to handle_sc_mods and
\* answered with the archive: the bundled integration payload for the
\* integration URL, the bytes of the Mod Store file for the URL of a pair
\* (when that file can be read)
C18_ManifestAddressable ==
    (phase = "serving" /\ req.kind = "done" /\ req.url \in ManifestUrls) =>
        /\ req.handler = "handle_sc_mods"
        /\ req.url = SsiUrl("sc") =>
              /\ resp.status = "OK"
              /\ resp.body = [kind |-> "bytes", data |-> SSI_MOD_INTERNAL]
        /\ \A mod_id \in DOMAIN ModStore : \A mod_sub_id \in DOMAIN ModStore[mod_id] :
              (/\ req.url = ModUrl("sc", mod_id, mod_sub_id)
               /\ StoreData(ModStore[mod_id][mod_sub_id]) # ReadError) =>
                  /\ resp.status = "OK"
                  /\ resp.body = [kind |-> "bytes",
                                  data |-> StoreData(ModStore[mod_id][mod_sub_id])]

-----------------------------------------------------------------------------
(* Properties of the registry under parallel requests *)

\* The registry is equal to what startup returned at every step taken while
\* the server runs
RegistryKept ==
    /\ (phase = "down" /\ phase' = "serving") =>
          loaded' = load_data_dir(fsys, cacheFile, records, stores, config, now).mapping
    /\ (phase = "serving" /\ phase' = "serving") => loaded' = loaded

\* What every handler past its lookup found is what the registry of startup
\* holds for its request
LookupsAgree ==
    \A w \in Workers :
        pool[w].pc \in {"respond", "done"} =>
            pool[w].target = Resolution(loaded, pool[w].req)

\* C19: while requests of every kind run in parallel on the worker threads, in
\* any interleaving of their lookups, their file system work and their ends,
\* the registry stays equal to what startup built, and what a handler looked
\* up is determined by that registry and its own request
C19_RegistryImmutable == [][RegistryKept]_vars /\ [](LookupsAgree)

\* A handler holds the file it looked up for an overlay key while another has
\* uploaded a save
C19_Witness ==
    /\ phase = "serving"
    /\ pool[1].pc = "respond"
    /\ pool[1].req.handler = "handle_other_path"
    /\ pool[1].target = <<<<"base", "index.css">>>>
    /\ pool[2].pc = "done"
    /\ pool[2].req.handler = "handle_save_upload"
    /\ saves # << >>

-----------------------------------------------------------------------------
(* Properties of the order of startup and serving *)

\* Construction fails: no manage entry, or a record file of the SugarCube
\* entry that does not parse
ConstructionFails ==
    config.manage = {} \/ ("sc" \in config.manage /\ ParseFails)

\* A request has been taken only in a process whose startup built every
\* manage entry; a process whose construction failed has ended in error
ServedAfterStartup ==
    /\ (req # NoReq \/ resp # NoResp) =>
          /\ phase = "serving"
          /\ ~ConstructionFails
          /\ loaded # NotLoaded
          /\ Entries(loaded) = config.manage
          /\ "sc" \in config.manage =>
                /\ build.kind = "built"
                /\ loaded.sc.instances =
                     create_instances(InstanceDir, IndexStore, LayerStore,
                                      loaded.sc.mods).map
    /\ (phase # "down" /\ ConstructionFails) =>
          phase = "failed" /\ loaded = NotLoaded

\* A process that ended in error takes no request
FailedIsFinal ==
    phase = "failed" =>
        /\ phase' \in {"failed", "down"}
        /\ req' = NoReq
        /\ resp' = NoResp
        /\ loaded' = NotLoaded

\* C20: requests are handled only after load_data_dir has built the stores and
\* resolved the instances of every manage entry; when construction fails for
\* an entry, or no entry is configured, the process ends and serves nothing
C20_StartupPrecedesServing == [](ServedAfterStartup) /\ [][FailedIsFinal]_vars

\* A request is answered from a registry holding both entries
C20_Witness ==
    /\ phase = "serving"
    /\ req.kind = "done"
    /\ resp.status = "OK"
    /\ Entries(loaded) = {"sc", "plain"}
    /\ DOMAIN loaded.sc.instances = {"x"}

-----------------------------------------------------------------------------
(* Properties of the rebuild of the layer map *)

\* The last startup rebuilt the layer map from disk
Rebuilt == build.kind = "built" /\ build.path = "rebuilt"

\* C21 as claimed: a rebuild persists a snapshot of current_modified and the
\* rebuilt map, whatever the map, so the artifact decodes to the returned map
C21_RebuildPersists ==
    Rebuilt =>
        /\ build.wrote
        /\ decode_cache(cacheFile) =
              <<[last_modified |-> build.current_modified, layer_map |-> build.map]>>

\* The build a startup would run on the disk as it is now
NextBuild == create_layers(fsys, cacheFile, now)

\* C22 as claimed: once a build has rebuilt the map and written the snapshot,
\* the artifact being created by that write or not, the next build on the
\* unchanged tree finds the snapshot fresh and returns the same map without a
\* rescan and without a write
C22_CacheConvergence ==
    (Rebuilt /\ build.wrote) =>
        /\ NextBuild.path = "cached"
        /\ NextBuild.map = build.map
        /\ ~NextBuild.wrote

\* C23 as claimed: the current_modified a startup computes is the largest
\* modification time of the layer root and of every file and directory
\* beneath it, whatever their names; only the artifact is left out
C23_FreshnessTimestamp ==
    [][(phase = "down" /\ phase' # "down" /\ build'.kind = "built")
          => build'.current_modified = TreeMax(fsys)]_vars

-----------------------------------------------------------------------------
(* Properties of the key space of an overlay *)

\* The layers the record of instance id lists that the Layer Store holds
Listed(id) == Range(RecordOf(id).layers) \cap DOMAIN LayerStore

\* The files enumerated for the listed layers of instance id
Enumerated(id) == UNION {Range(LayerStore[l]) : l \in Listed(id)}

\* C24: every key of an instance's merged overlay maps to the file some layer
\* the record lists, and the store holds, has under that key; and the file an
\* overlay request touches, whatever its path, is a file enumerated for a
\* listed layer
C24_OverlayClosure ==
    phase = "serving" =>
        /\ \A id \in DOMAIN loaded.sc.instances :
              \A k \in DOMAIN loaded.sc.instances[id].layer_merged :
                 \E l \in Listed(id) :
                    /\ k \in DOMAIN LayerStore[l]
                    /\ loaded.sc.instances[id].layer_merged[k] = LayerStore[l][k]
        /\ (/\ Handled
            /\ req.manage_id = "sc"
            /\ req.instance_id \in DOMAIN loaded.sc.instances
            /\ resp.fs_calls # << >>) =>
               resp.path \in Enumerated(req.instance_id)

\* x lists base alone: index.css is served from base, and the path that
\* reaches for theme's index.css is a key of nothing
C24_Witness ==
    /\ phase = "serving"
    /\ RecordOf("x").layers = <<"ghost", "base">>
    /\ "theme" \in DOMAIN LayerStore
    /\ <<"theme", "index.css">> \notin Enumerated("x")
    /\ Handled
    /\ req.other_path = <<".", ".", "/", "theme", "/", "index.css">>
    /\ resp.status = "NOT_FOUND"
    /\ resp.fs_calls = << >>

-----------------------------------------------------------------------------
(* Properties of reads that fail while the server runs *)

\* The file a plain-mode request names
PlainNamed == loaded.plain.root_path \o Named(req.other_path)

\* It is missing, cannot be read, or is larger than MAX_FILE_SIZE
BackingFails ==
    \/ ~PlainExists(plainFs, PlainNamed)
    \/ /\ plainFs[PlainNamed].kind = "file"
       /\ (~plainFs[PlainNamed].readable \/ plainFs[PlainNamed].len > MAX_FILE_SIZE)

\* C25 as claimed: a request whose backing file is missing, unreadable or
\* oversized when it is read is answered Not Found or Internal Server Error
C25_ReadFailures ==
    (/\ Handled /\ req.manage_id = "plain"
     /\ ~HasParentComponent(req.other_path)
     /\ BackingFails)
    => resp.status \in {"NOT_FOUND", "INTERNAL_SERVER_ERROR"}

-----------------------------------------------------------------------------
(* Properties of the stores built from the directories of the entry *)

\* The archives create_mods recognizes beneath the immediate subdirectory mod_id
Recognized(mod_id) ==
    {f \in stores.mod_dir.files :
        f.dir # << >> /\ f.dir[1] = mod_id /\ extension_eq(f, "zip")}

ModsBuilt == phase = "serving" /\ config.use_mods /\ stores.mod_dir.exists

\* C26: the mod store has one mod id for each immediate subdirectory of the mod
\* directory, and under it every archive found at any depth beneath that
\* subdirectory (extension zip in any case) under the sub id that is its file
\* name without the extension; no sub id is a file name with the extension on
C26_ModStoreKeys ==
    ModsBuilt =>
        /\ DOMAIN ModStore = stores.mod_dir.dirs
        /\ \A mod_id \in DOMAIN ModStore :
              /\ DOMAIN ModStore[mod_id] = {f.stem : f \in Recognized(mod_id)}
              /\ \A f \in Recognized(mod_id) :
                    ModStore[mod_id][f.stem] \in
                        {ModPath(g) : g \in {h \in Recognized(mod_id) : h.stem = f.stem}}

\* A step in which load_data_dir builds the SugarCube entry
BuildsEntry == phase = "down" /\ phase' # "down" /\ "sc" \in config.manage

IsExampleFile(f) == f.stem = "_example" /\ f.ext = "yaml"

\* A startup that finds no instance directory creates it with the example file
\* alone, and succeeds with no instance
InstanceBootstrap ==
    (BuildsEntry /\ ~stores.instance_dir) =>
        /\ stores'.instance_dir
        /\ records' = <<example_path>>
        /\ phase' = "serving"
        /\ loaded'.sc.instances = EmptyMap

\* Every resolved instance is declared by a record file that does not have the
\* example's name
ExampleIgnored ==
    (phase = "serving" /\ "sc" \in config.manage) =>
        /\ "example" \notin DOMAIN loaded.sc.instances
        /\ \A id \in DOMAIN loaded.sc.instances :
              \E i \in DOMAIN records :
                  ~IsExampleFile(records[i]) /\ records[i].body.id = id

\* What the example record names is all there: its index, its layers, its mods
ExampleResolves ==
    /\ example.index \in DOMAIN IndexStore
    /\ Range(example.layers) \subseteq DOMAIN LayerStore
    /\ config.use_mods
    /\ \A i \in DOMAIN example.mods :
          /\ example.mods[i][1] \in DOMAIN ModStore
          /\ example.mods[i][2] \in DOMAIN ModStore[example.mods[i][1]]

\* C27: a startup that finds no instance directory creates it, writes the
\* example file, and succeeds with an empty instance map; at every startup
\* after that the file named _example.yaml is left out of the walk, so no
\* instance of the registry comes from it, even when the index, the layers and
\* the mods it names all exist
C27_ExampleReserved == [][InstanceBootstrap]_vars /\ []ExampleIgnored

\* The example file is in the instance directory, everything it names exists,
\* and the server runs without an instance
C27_Witness ==
    /\ phase = "serving"
    /\ records = <<example_path>>
    /\ ExampleResolves
    /\ loaded.sc.instances = EmptyMap

\* C28: a startup that finds the index, the layer or the mod directory missing
\* creates the directory and takes the store as empty, reading no cache
\* artifact, and goes on to serve; a record that names an index then resolves
\* to no instance, and an instance has no overlay key and no mod from a store
\* that was missing
C28_StoreBootstrap ==
    [][BuildsEntry =>
        /\ ~stores.index_dir.exists =>
              /\ stores'.index_dir = Dir({}, {})
              /\ phase' = "serving"
              /\ loaded'.sc.instances = EmptyMap
        /\ ~Exists(fsys, LayerRoot) =>
              /\ IsDir(fsys', LayerRoot)
              /\ ReadDir(fsys', LayerRoot) = {}
              /\ build'.path = "bootstrap"
              /\ build'.map = EmptyMap
              /\ ~build'.wrote
              /\ cacheFile' = cacheFile
              /\ phase' = "serving"
              /\ \A id \in DOMAIN loaded'.sc.instances :
                    loaded'.sc.instances[id].layer_merged = EmptyMap
        /\ (config.use_mods /\ ~stores.mod_dir.exists) =>
              /\ stores'.mod_dir = Dir({}, {})
              /\ phase' = "serving"
              /\ loaded'.sc.mods = EmptyMap
              /\ \A id \in DOMAIN loaded'.sc.instances :
                    loaded'.sc.instances[id].mods_ref = EmptyMap]_vars

\* The server runs after a startup that created the layer directory, with an
\* index and a mod directory that are empty, and the operator's record, which
\* names an index, two layers and two mods, gave no instance
C28_Witness ==
    /\ phase = "serving"
    /\ build.kind = "built"
    /\ build.path = "bootstrap"
    /\ stores.index_dir = Dir({}, {})
    /\ config.use_mods
    /\ stores.mod_dir = Dir({}, {})
    /\ loaded.sc.mods = EmptyMap
    /\ records = <<OwnRecord>>
    /\ loaded.sc.instances = EmptyMap

-----------------------------------------------------------------------------
(* Properties of a rebuild over layers that cannot be read *)

\* The layer directories read_dir finds, and those whose walk meets a
\* directory that cannot be listed
LayerDirs == {Last(p) : p \in {q \in ReadDir(fsys, LayerRoot) : IsDir(fsys, q)}}

ScanFails(name) ==
    \E p \in WalkDir(fsys, LayerRoot \o <<name>>) : IsDir(fsys, p) /\ ~Listable(fsys, p)

\* C29: a rebuild leaves out of the layer map each layer directory in whose
\* walk a directory cannot be listed, scans and includes every other layer
\* directory, and succeeds; the map it returns and the artifact it writes
\* hold the layers that were scanned without an error, and no other
C29_LayerIsolation ==
    Rebuilt =>
        /\ DOMAIN build.map = {name \in LayerDirs : ~ScanFails(name)}
        /\ \A name \in DOMAIN build.map :
              build.map[name] = new_dir(fsys, LayerRoot \o <<name>>)
        /\ build.wrote =>
              decode_cache(cacheFile) =
                  <<[last_modified |-> build.current_modified,
                     layer_map |-> build.map]>>

=============================================================================
